---- MODULE Spec2Model ----
(***************************************************************************)
(* Run processor, run repository, run lock, queues and webhook admission   *)
(* of the workflow automation engine.                                      *)
(*                                                                         *)
(* Time is kept as remaining-time counters (lock lease, message delay,     *)
(* step deadline, idempotency binding) that a Tick action decreases by     *)
(* one quantum; a delayed message is delivered on a quantum boundary,      *)
(* which the queue contract ("no earlier than now + delay") allows.        *)
(***************************************************************************)
EXTENDS Integers, Sequences, FiniteSets, Bags, TLC

\* ---------------------------------------------------------------- bounds
NumWorkers == 2
MaxDisturbances == 2
MaxRequests == 2
MaxClock == 3

\* ------------------------------------------------------ program constants
LOCK_TTL == 60000
LOCK_RETRY_DELAY == 1000
DEFAULT_STEP_TIMEOUT_MS == 300000
DEFAULT_MAX_ATTEMPTS == 3
DEFAULT_INITIAL_DELAY_MS == 1000
DEFAULT_MAX_DELAY_MS == 60000
DelayMs == 5000
IDEMPOTENCY_TTL_MS == 86400000

TickMs == LOCK_TTL

Null == "null"
NoPolicy == [none |-> TRUE]
NoStep == [none |-> TRUE]
NoError == [none |-> TRUE]
NoMsg == [none |-> TRUE]
NoRun == [none |-> TRUE]
NoContext == [none |-> TRUE]
NoCalc == [none |-> TRUE]

Workers == 1..NumWorkers
TheRun == <<"run", 1>>
TheWorkflow == "wf-1"

RunStatus == {"pending", "running", "completed", "failed", "cancelled"}
Outputs == {"x"}
\* the trigger data of the run: the webhook's body and headers
TheTrigger == "t1"
\* context.variables of a new run: {}
NoVariables == <<>>
JitterPcts == {10}

Min(a, b) == IF a < b THEN a ELSE b
Dec(t) == IF t > TickMs THEN t - TickMs ELSE 0

VARIABLES
    steps,        \* workflow.steps, in "order" order
    runs,         \* runs table: run id -> row or Null
    execs,        \* step_executions table: set of rows
    lock,         \* redis key lock:run:{id}: remaining lease in ms, 0 = absent
    queue,        \* bag of messages waiting or delayed in the two queues
    wk,           \* per worker slot: position in processStartRun / processExecuteStep
    api,          \* the REST request in flight (cancel / retry)
    handlerCalls, \* number of handler.execute invocations per step id
    disturbances, \* duplicate deliveries and REST requests so far
    idem,         \* idempotency_keys table: set of rows
    hooks,        \* webhook POSTs: position in the route handler, response
    clock,        \* ms since the run was created (kept where a claim is about time)
    calc,         \* a call of a pure function: its arguments and its result
    workflows,    \* table workflows
    stepRows      \* table steps

vars == <<steps, runs, execs, lock, queue, wk, api, handlerCalls,
          disturbances, idem, hooks, clock, calc,
          workflows, stepRows>>

\* ------------------------------------------------------------- workflow
StepNameOf(id) == IF id = 1 THEN "fetch" ELSE "transform"
StepIds == 1..2
StepNames == {StepNameOf(i) : i \in StepIds}

MkStep(id, type, enabled, policy) ==
    [id |-> id, name |-> StepNameOf(id), type |-> type, enabled |-> enabled,
     retryPolicy |-> policy, timeoutMs |-> 0, durationMs |-> DelayMs]

Policy(n) ==
    [maxAttempts |-> n, backoffType |-> "exponential",
     initialDelayMs |-> 100, maxDelayMs |-> 10000]

\* the workflows a run is checked against; the processor never changes them
Workflows ==
    { <<MkStep(1, "http", TRUE, NoPolicy)>>,
      <<MkStep(1, "delay", TRUE, Policy(1)), MkStep(2, "ai", TRUE, Policy(2))>>,
      <<MkStep(1, "ai", FALSE, NoPolicy), MkStep(2, "http", TRUE, Policy(2))>>,
      <<MkStep(1, "http", FALSE, NoPolicy), MkStep(2, "ai", FALSE, NoPolicy)>> }

\* a row of table workflows
TheSlug == "known"
WorkflowRow(enabled, secret) ==
    [id |-> TheWorkflow, slug |-> TheSlug, enabled |-> enabled,
     webhookSecret |-> secret]

\* the rows of table steps behind a loaded workflow (ORDER BY "order")
StepRowsOf(ss) ==
    {[id |-> ss[i].id, workflowId |-> TheWorkflow, order |-> i - 1,
      name |-> ss[i].name] : i \in DOMAIN ss}

EnabledSteps(ss) == SelectSeq(ss, LAMBDA s : s.enabled)

\* enabledSteps.find(s => s.id === stepId)
FindStep(es, stepId) ==
    IF \E i \in 1..Len(es) : es[i].id = stepId
    THEN es[CHOOSE i \in 1..Len(es) : es[i].id = stepId]
    ELSE NoStep

\* handlers registered by the worker of each queue
HandlersOf(q) == IF q = "ai" THEN {"ai"} ELSE {"http", "transform", "delay"}

QueueFor(step) == IF step.type = "ai" THEN "ai" ELSE "execute"

\* step.retryPolicy ?? { maxAttempts: 3, exponential, 1000, 60000 }
PolicyOf(step) ==
    IF step.retryPolicy = NoPolicy
    THEN [maxAttempts |-> DEFAULT_MAX_ATTEMPTS, backoffType |-> "exponential",
          initialDelayMs |-> DEFAULT_INITIAL_DELAY_MS,
          maxDelayMs |-> DEFAULT_MAX_DELAY_MS]
    ELSE step.retryPolicy

\* calculateBackoff, with the random jitter given in percent (10..19)
Pow2(n) == IF n <= 0 THEN 1 ELSE 2 ^ n
\* calculateBackoff with the jitter lines left out
CalculateBackoffNoJitter(backoffType, attempt, initialDelayMs, maxDelayMs, jp) ==
    LET base == CASE backoffType = "fixed" -> initialDelayMs
                  [] backoffType = "linear" -> initialDelayMs * attempt
                  [] OTHER -> initialDelayMs * Pow2(attempt - 1)
    IN  Min(base, maxDelayMs)

\* calculateBackoff with the cap taken before the jitter is added
CalculateBackoffCapFirst(backoffType, attempt, initialDelayMs, maxDelayMs, jp) ==
    LET base == CASE backoffType = "fixed" -> initialDelayMs
                  [] backoffType = "linear" -> initialDelayMs * attempt
                  [] OTHER -> initialDelayMs * Pow2(attempt - 1)
        capped == Min(base, maxDelayMs)
    IN  capped + (capped * jp) \div 100

CalculateBackoff(backoffType, attempt, initialDelayMs, maxDelayMs, jp) ==
    LET base == CASE backoffType = "fixed" -> initialDelayMs
                  [] backoffType = "linear" -> initialDelayMs * attempt
                  [] OTHER -> initialDelayMs * Pow2(attempt - 1)
        jitter == (base * jp) \div 100
    IN  Min(base + jitter, maxDelayMs)

\* ------------------------------------------------------------- messages
StartRunMsg(runId) ==
    [type |-> "START_RUN", runId |-> runId, workflowId |-> TheWorkflow,
     stepIndex |-> 0, stepId |-> 0, attempt |-> 0]

ExecuteStepMsg(runId, stepIndex, stepId, attempt) ==
    [type |-> "EXECUTE_STEP", runId |-> runId, workflowId |-> TheWorkflow,
     stepIndex |-> stepIndex, stepId |-> stepId, attempt |-> attempt]

\* an entry of a queue: the message, the queue it sits in, its remaining delay
Job(q, m, delay) == [q |-> q, msg |-> m, delay |-> delay]

\* enqueue(queue, message, { delay })
Enqueue(qu, q, m, delay) == qu (+) SetToBag({Job(q, m, delay)})

\* ---------------------------------------------------------- repository
\* runRepository.create
NewRun ==
    [status |-> "pending", currentStepIndex |-> 0,
     triggerData |-> TheTrigger,
     context |-> [trigger |-> TheTrigger,
                  steps |-> [n \in StepNames |-> Null],
                  variables |-> NoVariables],
     completedAt |-> Null, error |-> NoError]

\* runRepository.updateStatus: status always, the other columns only when given
UpdateStatus(row, status, upd) ==
    [status |-> status,
     triggerData |-> row.triggerData,
     currentStepIndex |-> IF "currentStepIndex" \in DOMAIN upd
                          THEN upd.currentStepIndex ELSE row.currentStepIndex,
     context |-> IF "context" \in DOMAIN upd THEN upd.context ELSE row.context,
     completedAt |-> IF "completedAt" \in DOMAIN upd
                     THEN upd.completedAt ELSE row.completedAt,
     error |-> IF "error" \in DOMAIN upd THEN upd.error ELSE row.error]

NoUpdates == [none |-> TRUE]

ExecKey(e) == <<e.runId, e.stepId, e.attempt>>

\* the table without its unique constraint
NoUniqueConstraint(ex, runId, stepId, attempt) == FALSE

\* UNIQUE(run_id, step_id, attempt)
ExecConflict(ex, runId, stepId, attempt) ==
    \E e \in ex : ExecKey(e) = <<runId, stepId, attempt>>

\* runRepository.createStepExecution
CreateStepExecution(ex, runId, stepId, stepName, attempt) ==
    ex \cup {[runId |-> runId, stepId |-> stepId, stepName |-> stepName,
              attempt |-> attempt, status |-> "pending", output |-> Null,
              error |-> NoError]}

\* runRepository.updateStepExecution
UpdateStepExecution(ex, key, status, output, error) ==
    {IF ExecKey(e) = key
     THEN [e EXCEPT !.status = status,
                    !.output = IF output = Null THEN e.output ELSE output,
                    !.error = IF error = NoError THEN e.error ELSE error]
     ELSE e : e \in ex}

\* ------------------------------------------------------------- workers
IdleWorker ==
    [pc |-> "idle", q |-> Null, msg |-> NoMsg, context |-> NoContext,
     out |-> Null, err |-> NoError, timer |-> 0, outcome |-> Null]

Init ==
    /\ steps \in Workflows
    /\ runs = [r \in {TheRun} |-> NewRun]
    /\ execs = {}
    /\ lock = [r \in {TheRun} |-> 0]
    /\ queue = SetToBag({Job("execute", StartRunMsg(TheRun), 0)})
    /\ wk = [w \in Workers |-> IdleWorker]
    /\ api = [pc |-> "idle"]
    /\ handlerCalls = [i \in StepIds |-> 0]
    /\ disturbances = 0
    /\ idem = {}
    /\ hooks = << >>
    /\ clock = 0
    /\ workflows = {WorkflowRow(TRUE, Null)}
    /\ stepRows = StepRowsOf(steps)
    /\ calc = NoCalc

\* ------------------------------------------------------ error taxonomy
\* what a handler (or the processor's own checks) can throw
ErrorKinds == {"HTTP_500", "HTTP_404", "Step timeout",
               "Step output exceeds", "Context exceeds"}

\* classifyError: pre-classified WorkflowErrors pass through; a plain Error
\* whose message contains "timeout" or a network error code is TRANSIENT;
\* anything else is FATAL
ClassifyError(kind) ==
    CASE kind = "HTTP_500" ->
           [category |-> "TRANSIENT", code |-> "HTTP_500", retryable |-> TRUE,
            message |-> kind]
      [] kind = "HTTP_404" ->
           [category |-> "NOT_FOUND", code |-> "HTTP_404", retryable |-> FALSE,
            message |-> kind]
      [] kind = "Step timeout" ->
           [category |-> "TRANSIENT", code |-> "TIMEOUT", retryable |-> TRUE,
            message |-> kind]
      [] kind = "connect ECONNREFUSED" ->
           [category |-> "TRANSIENT", code |-> "NETWORK_ERROR", retryable |-> TRUE,
            message |-> kind]
      [] OTHER ->
           [category |-> "FATAL", code |-> "UNKNOWN_ERROR", retryable |-> FALSE,
            message |-> kind]

\* ------------------------------------------------------------- broker
\* Worker slots are interchangeable: a job goes to the first idle slot.
FirstIdle(w) ==
    /\ wk[w].pc = "idle"
    /\ \A v \in Workers : v < w => wk[v].pc # "idle"

\* The broker hands out a job whose delay has elapsed; it may hand the same
\* job out once more later (at-least-once delivery).
Taken(j, again) ==
    /\ j \in BagToSet(queue)
    /\ j.delay = 0
    /\ again => disturbances < MaxDisturbances
    /\ disturbances' = IF again THEN disturbances + 1 ELSE disturbances

Rest(j, again) == IF again THEN queue ELSE queue (-) SetToBag({j})

Busy(j, pc) == [IdleWorker EXCEPT !.q = j.q, !.msg = j.msg, !.pc = pc]

\* ----------------------------------------------------- processStartRun
\* START_RUN job: load workflow and run, updateStatus(runId, 'running')
StartRunSetRunning(w) ==
    /\ FirstIdle(w)
    /\ \E j \in BagToSet(queue), again \in BOOLEAN :
         /\ Taken(j, again)
         /\ j.msg.type = "START_RUN"
         /\ queue' = Rest(j, again)
         /\ runs' = [runs EXCEPT ![j.msg.runId] =
                         UpdateStatus(@, "running", NoUpdates)]
         /\ wk' = [wk EXCEPT ![w] = Busy(j, "sr_next")]
    /\ UNCHANGED <<stepRows, workflows, calc, clock, steps, execs, lock, api, handlerCalls, idem, hooks>>

\* processStartRun that enqueues the workflow's first step, enabled or not
StartRunNextFirstOfAll(w) ==
    /\ wk[w].pc = "sr_next"
    /\ queue' = Enqueue(queue, QueueFor(steps[1]),
                        ExecuteStepMsg(wk[w].msg.runId, 0, steps[1].id, 1), 0)
    /\ wk' = [wk EXCEPT ![w] = IdleWorker]
    /\ UNCHANGED <<stepRows, workflows, calc, clock, steps, runs, execs, lock, api, handlerCalls,
                   disturbances, idem, hooks>>

\* no enabled step: complete at once; otherwise enqueue the first step
StartRunNext(w) ==
    /\ wk[w].pc = "sr_next"
    /\ LET es == EnabledSteps(steps)
           r == wk[w].msg.runId
       IN  IF Len(es) = 0
           THEN /\ runs' = [runs EXCEPT ![r] =
                      UpdateStatus(@, "completed", [completedAt |-> "set"])]
                /\ queue' = queue
           ELSE /\ queue' = Enqueue(queue, QueueFor(es[1]),
                                    ExecuteStepMsg(r, 0, es[1].id, 1), 0)
                /\ runs' = runs
    /\ wk' = [wk EXCEPT ![w] = IdleWorker]
    /\ UNCHANGED <<stepRows, workflows, calc, clock, steps, execs, lock, api, handlerCalls, disturbances, idem,
                   hooks>>

\* --------------------------------------------------- processExecuteStep
\* lockManager.acquire: SET key 1 PX 60000 NX
LockFree(r) == lock[r] = 0

\* EXECUTE_STEP job, lock acquired
Acquire(w) ==
    /\ FirstIdle(w)
    /\ \E j \in BagToSet(queue), again \in BOOLEAN :
         /\ Taken(j, again)
         /\ j.msg.type = "EXECUTE_STEP"
         /\ LockFree(j.msg.runId)
         /\ lock' = [lock EXCEPT ![j.msg.runId] = LOCK_TTL]
         /\ queue' = Rest(j, again)
         /\ wk' = [wk EXCEPT ![w] = Busy(j, "load")]
    /\ UNCHANGED <<stepRows, workflows, calc, clock, steps, runs, execs, api, handlerCalls, idem, hooks>>

\* a re-enqueue after a failed acquire that moves on to the next attempt
RequeueAsNextAttempt(w) ==
    /\ FirstIdle(w)
    /\ \E j \in BagToSet(queue), again \in BOOLEAN :
         /\ Taken(j, again)
         /\ j.msg.type = "EXECUTE_STEP"
         /\ ~LockFree(j.msg.runId)
         /\ queue' = Enqueue(Rest(j, again), "execute",
                             [j.msg EXCEPT !.attempt = @ + 1],
                             LOCK_RETRY_DELAY)
    /\ UNCHANGED <<stepRows, workflows, calc, clock, steps, runs, execs, lock,
                   wk, api, handlerCalls, idem, hooks>>

\* EXECUTE_STEP job, lock not acquired:
\* enqueue('execute', msg, { delay: 1000 }) and return
Requeue(w) ==
    /\ FirstIdle(w)
    /\ \E j \in BagToSet(queue), again \in BOOLEAN :
         /\ Taken(j, again)
         /\ j.msg.type = "EXECUTE_STEP"
         /\ ~LockFree(j.msg.runId)
         /\ queue' = Enqueue(Rest(j, again), "execute", j.msg,
                             LOCK_RETRY_DELAY)
    /\ UNCHANGED <<stepRows, workflows, calc, clock, steps, runs, execs, lock, wk, api, handlerCalls, idem,
                   hooks>>

\* run.status !== 'running' (cancelled or already completed), or
\* run.currentStepIndex !== stepIndex (step already processed)
Stale(run, m) ==
    run.status # "running" \/ run.currentStepIndex # m.stepIndex

\* load workflow and run; status check; index check; find step; find handler
LoadRun(w) ==
    /\ wk[w].pc = "load"
    /\ LET m == wk[w].msg
           run == runs[m.runId]
           step == FindStep(EnabledSteps(steps), m.stepId)
       IN  wk' = [wk EXCEPT ![w] =
             IF Stale(run, m)
             THEN [@ EXCEPT !.pc = "release", !.outcome = "skipped"]
             ELSE IF step = NoStep \/ step.type \notin HandlersOf(wk[w].q)
             THEN [@ EXCEPT !.pc = "release", !.outcome = "thrown"]
             ELSE [@ EXCEPT !.pc = "create", !.context = run.context]]
    /\ UNCHANGED <<stepRows, workflows, calc, clock, steps, runs, execs, lock, queue, api, handlerCalls,
                   disturbances, idem, hooks>>

StepOf(m) == FindStep(EnabledSteps(steps), m.stepId)

\* step.timeoutMs ?? config.DEFAULT_STEP_TIMEOUT_MS
TimeoutOf(step) ==
    IF step.timeoutMs = 0 THEN DEFAULT_STEP_TIMEOUT_MS ELSE step.timeoutMs

\* createStepExecution (a duplicate (run, step, attempt) violates the unique
\* constraint and the insert throws), updateStepExecution(running), then
\* handler.execute is called and raced against the step deadline
CreateExecution(w) ==
    /\ wk[w].pc = "create"
    /\ LET m == wk[w].msg
           key == <<m.runId, m.stepId, m.attempt>>
       IN  IF ExecConflict(execs, m.runId, m.stepId, m.attempt)
           THEN /\ execs' = execs
                /\ handlerCalls' = handlerCalls
                /\ wk' = [wk EXCEPT ![w].pc = "release",
                                    ![w].outcome = "thrown"]
           ELSE /\ execs' = UpdateStepExecution(
                               CreateStepExecution(execs, m.runId, m.stepId,
                                   StepNameOf(m.stepId), m.attempt),
                               key, "running", Null, NoError)
                /\ handlerCalls' = [handlerCalls EXCEPT ![m.stepId] = @ + 1]
                /\ wk' = [wk EXCEPT ![w].pc = "handler",
                                    ![w].timer = TimeoutOf(StepOf(m))]
    /\ UNCHANGED <<stepRows, workflows, calc, clock, steps, runs, lock, queue, api, disturbances, idem, hooks>>

\* what each handler can throw; the delay handler only returns
HandlerThrows(type) ==
    IF type = "delay" THEN {} ELSE {"HTTP_500", "HTTP_404"}

\* the handler returns before the deadline with an output that fits:
\* updateStepExecution(completed, output)
HandlerReturns(w) ==
    /\ wk[w].pc = "handler"
    /\ wk[w].timer > 0
    /\ \E o \in Outputs :
         LET m == wk[w].msg
         IN  /\ execs' = UpdateStepExecution(execs,
                             <<m.runId, m.stepId, m.attempt>>, "completed",
                             o, NoError)
             /\ wk' = [wk EXCEPT ![w].pc = "advance", ![w].out = o,
                                 ![w].timer = 0]
    /\ UNCHANGED <<stepRows, workflows, calc, clock, steps, runs, lock, queue, api, handlerCalls, disturbances,
                   idem, hooks>>

\* the handler throws, its output is too large, or the deadline fires first:
\* the catch block classifies the error
HandlerFails(w) ==
    /\ wk[w].pc = "handler"
    /\ \E k \in IF wk[w].timer = 0 THEN {"Step timeout"}
                ELSE HandlerThrows(StepOf(wk[w].msg).type)
                       \cup {"Step output exceeds"} :
         wk' = [wk EXCEPT ![w].pc = "fail", ![w].err = ClassifyError(k),
                          ![w].timer = 0]
    /\ UNCHANGED <<stepRows, workflows, calc, clock, steps, runs, execs, lock, queue, api, handlerCalls,
                   disturbances, idem, hooks>>

\* a context that keeps only this step's output
NewContextWithoutEarlierSteps(context, name, output) ==
    [context EXCEPT
       !.steps = [n \in DOMAIN @ |-> IF n = name THEN output ELSE Null]]

\* a context rebuilt from the step outputs alone
NewContextStepsOnly(context, name, output) ==
    [trigger |-> Null, steps |-> [context.steps EXCEPT ![name] = output],
     variables |-> NoVariables]

\* a context that is written back without the step's output
NewContextWithoutOutput(context, name, output) == context

\* { ...run.context, steps: { ...run.context.steps, [step.name]: output } }
NewContext(context, name, output) ==
    [context EXCEPT !.steps = [@ EXCEPT ![name] = output]]

\* context size check (its throw lands in the catch block), then
\* updateStatus(running, { currentStepIndex: stepIndex + 1, context })
Advance(w) ==
    /\ wk[w].pc = "advance"
    /\ \E tooLarge \in BOOLEAN :
         LET m == wk[w].msg
             newContext == NewContext(wk[w].context, StepNameOf(m.stepId),
                                      wk[w].out)
         IN  IF tooLarge
             THEN /\ runs' = runs
                  /\ wk' = [wk EXCEPT ![w].pc = "fail",
                               ![w].err = ClassifyError("Context exceeds")]
             ELSE /\ runs' = [runs EXCEPT ![m.runId] =
                        UpdateStatus(@, "running",
                           [currentStepIndex |-> m.stepIndex + 1,
                            context |-> newContext])]
                  /\ wk' = [wk EXCEPT ![w].pc = "next"]
    /\ UNCHANGED <<stepRows, workflows, calc, clock, steps, execs, lock, queue, api, handlerCalls,
                   disturbances, idem, hooks>>

\* a next-step message without its delay
NextDelayNone(step) == 0

\* if (step.type === 'delay') delay = step.config.durationMs
NextDelay(step) == IF step.type = "delay" THEN step.durationMs ELSE 0

\* enqueue the next step (delayed after a delay step) or complete the run
ScheduleNext(w) ==
    /\ wk[w].pc = "next"
    /\ LET m == wk[w].msg
           es == EnabledSteps(steps)
           step == StepOf(m)
           nextStepIndex == m.stepIndex + 1
       IN  IF nextStepIndex < Len(es)
           THEN /\ queue' = Enqueue(queue, QueueFor(es[nextStepIndex + 1]),
                      ExecuteStepMsg(m.runId, nextStepIndex,
                                     es[nextStepIndex + 1].id, 1),
                      NextDelay(step))
                /\ runs' = runs
           ELSE /\ runs' = [runs EXCEPT ![m.runId] =
                      UpdateStatus(@, "completed", [completedAt |-> "set"])]
                /\ queue' = queue
    /\ wk' = [wk EXCEPT ![w].pc = "release"]
    /\ UNCHANGED <<stepRows, workflows, calc, clock, steps, execs, lock, api, handlerCalls, disturbances, idem,
                   hooks>>

\* catch block: updateStepExecution(failed, error)
FailExecution(w) ==
    /\ wk[w].pc = "fail"
    /\ LET m == wk[w].msg
       IN  execs' = UpdateStepExecution(execs,
                        <<m.runId, m.stepId, m.attempt>>, "failed",
                        Null, wk[w].err)
    /\ wk' = [wk EXCEPT ![w].pc = "decide"]
    /\ UNCHANGED <<stepRows, workflows, calc, clock, steps, runs, lock, queue, api, handlerCalls, disturbances,
                   idem, hooks>>

\* a retry decision that ignores the error's retryable flag
RetryWhateverTheError(err, attempt, policy) == attempt < policy.maxAttempts

\* a retry decision that allows one attempt too many
RetryOffByOne(err, attempt, policy) ==
    err.retryable /\ attempt <= policy.maxAttempts

\* classified.retryable && attempt < retryPolicy.maxAttempts
ShouldRetry(err, attempt, policy) ==
    err.retryable /\ attempt < policy.maxAttempts

\* a retry message that repeats the attempt number
RetryMessageSameAttempt(m) ==
    ExecuteStepMsg(m.runId, m.stepIndex, m.stepId, m.attempt)

\* a retry message that skips an attempt number
RetryMessageSkipsAttempt(m) ==
    ExecuteStepMsg(m.runId, m.stepIndex, m.stepId, m.attempt + 2)

\* retryMessage: { runId, workflowId, stepIndex, stepId, attempt: attempt + 1 }
RetryMessage(m) ==
    ExecuteStepMsg(m.runId, m.stepIndex, m.stepId, m.attempt + 1)

\* schedule the retry, or fail the run
RetryOrFail(w) ==
    /\ wk[w].pc = "decide"
    /\ LET m == wk[w].msg
           step == StepOf(m)
           policy == PolicyOf(step)
       IN  IF ShouldRetry(wk[w].err, m.attempt, policy)
           THEN /\ \E jp \in JitterPcts :
                     queue' = Enqueue(queue, QueueFor(step), RetryMessage(m),
                        CalculateBackoff(policy.backoffType, m.attempt,
                           policy.initialDelayMs, policy.maxDelayMs, jp))
                /\ runs' = runs
           ELSE /\ runs' = [runs EXCEPT ![m.runId] =
                      UpdateStatus(@, "failed",
                         [completedAt |-> "set",
                          error |-> [code |-> wk[w].err.code,
                                     stepId |-> m.stepId,
                                     stepName |-> StepNameOf(m.stepId)]])]
                /\ queue' = queue
    /\ wk' = [wk EXCEPT ![w].pc = "release"]
    /\ UNCHANGED <<stepRows, workflows, calc, clock, steps, execs, lock, api, handlerCalls, disturbances, idem,
                   hooks>>

\* a worker's lock release that leaves the key in place
ReleaseKeepsLock(w) ==
    /\ wk[w].pc = "release"
    /\ wk' = [wk EXCEPT ![w] = IdleWorker]
    /\ UNCHANGED <<stepRows, workflows, calc, clock, steps, runs, execs, lock, queue, api, handlerCalls,
                   disturbances, idem, hooks>>

\* finally: lockManager.release deletes the key, whoever set it
Release(w) ==
    /\ wk[w].pc = "release"
    /\ lock' = [lock EXCEPT ![wk[w].msg.runId] = 0]
    /\ wk' = [wk EXCEPT ![w] = IdleWorker]
    /\ UNCHANGED <<stepRows, workflows, calc, clock, steps, runs, execs, queue, api, handlerCalls,
                   disturbances, idem, hooks>>

\* ------------------------------------------------------------ REST API
\* POST /api/v1/runs/:id/cancel, first half: read the run, check its status
CancelRead ==
    /\ api.pc = "idle"
    /\ disturbances < MaxDisturbances
    /\ runs[TheRun].status \in {"pending", "running"}
    /\ api' = [pc |-> "cancelWrite"]
    /\ disturbances' = disturbances + 1
    /\ UNCHANGED <<stepRows, workflows, calc, clock, steps, runs, execs, lock, queue, wk, handlerCalls, idem,
                   hooks>>

\* second half: updateStatus(id, 'cancelled', { completedAt })
CancelWrite ==
    /\ api.pc = "cancelWrite"
    /\ runs' = [runs EXCEPT ![TheRun] =
                    UpdateStatus(@, "cancelled", [completedAt |-> "set"])]
    /\ api' = [pc |-> "idle"]
    /\ UNCHANGED <<stepRows, workflows, calc, clock, steps, execs, lock, queue, wk, handlerCalls, disturbances,
                   idem, hooks>>

\* POST /api/v1/runs/:id/retry: read the run, require status failed
RetryRead ==
    /\ api.pc = "idle"
    /\ disturbances < MaxDisturbances
    /\ runs[TheRun].status = "failed"
    /\ api' = [pc |-> "retryWrite"]
    /\ disturbances' = disturbances + 1
    /\ UNCHANGED <<stepRows, workflows, calc, clock, steps, runs, execs, lock, queue, wk, handlerCalls, idem,
                   hooks>>

\* updateStatus(id, 'pending', { completedAt: undefined, error: undefined }):
\* undefined fields are skipped, so only the status column is written
RetryWrite ==
    /\ api.pc = "retryWrite"
    /\ runs' = [runs EXCEPT ![TheRun] = UpdateStatus(@, "pending", NoUpdates)]
    /\ api' = [pc |-> "retryEnqueue"]
    /\ UNCHANGED <<stepRows, workflows, calc, clock, steps, execs, lock, queue, wk, handlerCalls, disturbances,
                   idem, hooks>>

\* enqueue('execute', START_RUN)
RetryEnqueue ==
    /\ api.pc = "retryEnqueue"
    /\ queue' = Enqueue(queue, "execute", StartRunMsg(TheRun), 0)
    /\ api' = [pc |-> "idle"]
    /\ UNCHANGED <<stepRows, workflows, calc, clock, steps, runs, execs, lock, wk, handlerCalls, disturbances,
                   idem, hooks>>

\* ---------------------------------------------------------------- time
RECURSIVE SumCopies(_, _)
SumCopies(S, qu) ==
    IF S = {} THEN 0
    ELSE LET j == CHOOSE x \in S : TRUE
         IN  CopiesIn(j, qu) + SumCopies(S \ {j}, qu)

Aged(j) == [j EXCEPT !.delay = Dec(j.delay)]

AgeQueue(qu) ==
    LET S == BagToSet(qu)
    IN  [k \in {Aged(j) : j \in S} |->
            SumCopies({j \in S : Aged(j) = k}, qu)]

\* One quantum passes.  Database and broker round trips are short against
\* the quantum, so time passes only while every busy worker waits on its
\* handler; a handler whose deadline has come settles before time goes on.
Elapse ==
    /\ api.pc = "idle"
    /\ \A w \in Workers : wk[w].pc \in {"idle", "handler"}
    /\ \A w \in Workers : wk[w].pc = "handler" => wk[w].timer > 0
    /\ \/ \E r \in DOMAIN lock : lock[r] > 0
       \/ \E j \in BagToSet(queue) : j.delay > 0
       \/ \E w \in Workers : wk[w].pc = "handler"
    /\ lock' = [r \in DOMAIN lock |-> Dec(lock[r])]
    /\ queue' = AgeQueue(queue)
    /\ wk' = [w \in Workers |-> [wk[w] EXCEPT !.timer = Dec(@)]]
    /\ UNCHANGED <<stepRows, workflows, calc, steps, runs, execs, api, handlerCalls, disturbances,
                   idem, hooks>>

\* time passes; the run's age is not recorded
Tick == Elapse /\ UNCHANGED clock

\* -------------------------------------------------------- specification
WorkerStep(w) ==
    \/ StartRunSetRunning(w)
    \/ StartRunNext(w)
    \/ Acquire(w)
    \/ Requeue(w)
    \/ LoadRun(w)
    \/ CreateExecution(w)
    \/ HandlerReturns(w)
    \/ HandlerFails(w)
    \/ Advance(w)
    \/ ScheduleNext(w)
    \/ FailExecution(w)
    \/ RetryOrFail(w)
    \/ Release(w)

Next ==
    \/ \E w \in Workers : WorkerStep(w)
    \/ CancelRead
    \/ CancelWrite
    \/ RetryRead
    \/ RetryWrite
    \/ RetryEnqueue
    \/ Tick

Spec == Init /\ [][Next]_vars

TypeOK ==
    /\ runs[TheRun].status \in RunStatus
    /\ \A w \in Workers : wk[w].timer >= 0

\* ------------------------------------------------------ webhook admission
Requests == 1..MaxRequests
Keys == {"k1", "k2"}
NoRunId == <<"none", 0>>

\* idempotency_keys.expires_at = created_at + 24 hours; a row keeps the time
\* left until expires_at (0: expires_at = now, -1: expires_at < now)
IdemQuantum == IDEMPOTENCY_TTL_MS \div 2

\* SELECT run_id FROM idempotency_keys WHERE key = $1 AND expires_at > NOW()
FindByIdempotencyKey(rows, key) ==
    IF \E x \in rows : x.key = key /\ x.left > 0
    THEN (CHOOSE x \in rows : x.key = key /\ x.left > 0).runId
    ELSE NoRunId

\* ON CONFLICT (key) DO UPDATE instead of DO NOTHING
UpsertIdempotencyKey(rows, key, runId) ==
    {x \in rows : x.key # key}
       \cup {[key |-> key, runId |-> runId, left |-> IDEMPOTENCY_TTL_MS]}

\* INSERT INTO idempotency_keys (key, run_id) ... ON CONFLICT (key) DO NOTHING
SetIdempotencyKey(rows, key, runId) ==
    IF \E x \in rows : x.key = key
    THEN rows
    ELSE rows \cup {[key |-> key, runId |-> runId, left |-> IDEMPOTENCY_TTL_MS]}

\* cleanup_expired_idempotency_keys: DELETE ... WHERE expires_at < NOW()
CleanupExpiredIdempotencyKeys(rows) == {x \in rows : x.left >= 0}

NewHook == [pc |-> "new", key |-> Null, runId |-> NoRunId, code |-> 0,
            age |-> 0]

\* the id the database gives the next run
FreshRunId == <<"run", Cardinality(DOMAIN runs) + 1>>

\* POST /webhooks/:slug arrives (workflow found, enabled, signature accepted),
\* with or without an X-Idempotency-Key; the key is looked up
HookLookup(h) ==
    /\ hooks[h].pc = "new"
    /\ \E key \in Keys \cup {Null} :
         LET found == IF key = Null THEN NoRunId
                      ELSE FindByIdempotencyKey(idem, key)
         IN  hooks' = [hooks EXCEPT ![h] =
                IF found # NoRunId
                THEN [@ EXCEPT !.pc = "done", !.key = key, !.runId = found,
                               !.code = 200]
                ELSE [@ EXCEPT !.pc = "create", !.key = key]]
    /\ UNCHANGED <<stepRows, workflows, calc, clock, steps, runs, execs, lock, queue, wk, api, handlerCalls,
                   disturbances, idem>>

\* runRepository.create(workflow.id, triggerData)
HookCreate(h) ==
    /\ hooks[h].pc = "create"
    /\ runs' = [r \in DOMAIN runs \cup {FreshRunId} |->
                   IF r \in DOMAIN runs THEN runs[r] ELSE NewRun]
    /\ hooks' = [hooks EXCEPT ![h].pc = "bind", ![h].runId = FreshRunId]
    /\ UNCHANGED <<stepRows, workflows, calc, clock, steps, execs, lock, queue, wk, api, handlerCalls,
                   disturbances, idem>>

\* if (idempotencyKey) setIdempotencyKey(idempotencyKey, run.id)
HookBind(h) ==
    /\ hooks[h].pc = "bind"
    /\ idem' = IF hooks[h].key = Null THEN idem
               ELSE SetIdempotencyKey(idem, hooks[h].key, hooks[h].runId)
    /\ hooks' = [hooks EXCEPT ![h].pc = "enqueue"]
    /\ UNCHANGED <<stepRows, workflows, calc, clock, steps, runs, execs, lock, queue, wk, api, handlerCalls,
                   disturbances>>

\* enqueue('execute', START_RUN) and reply 202
HookEnqueue(h) ==
    /\ hooks[h].pc = "enqueue"
    /\ queue' = Enqueue(queue, "execute", StartRunMsg(hooks[h].runId), 0)
    /\ hooks' = [hooks EXCEPT ![h].pc = "done", ![h].code = 202]
    /\ UNCHANGED <<stepRows, workflows, calc, clock, steps, runs, execs, lock, wk, api, handlerCalls,
                   disturbances, idem>>

\* the periodic cleanup of expired keys
HookCleanup ==
    /\ idem' = CleanupExpiredIdempotencyKeys(idem)
    /\ idem' # idem
    /\ UNCHANGED <<stepRows, workflows, calc, clock, steps, runs, execs, lock, queue, wk, api, handlerCalls,
                   disturbances, hooks>>

AgeLeft(t) == IF t - IdemQuantum < 0 THEN 0 - 1 ELSE t - IdemQuantum
AgeHook(t) == Min(t + IdemQuantum, IDEMPOTENCY_TTL_MS)

\* half a day passes while no request is in the middle of the route handler
HookTick ==
    /\ \A h \in Requests : hooks[h].pc \in {"new", "done"}
    /\ \E h \in Requests : hooks[h].pc = "done"
    /\ idem' = {[x EXCEPT !.left = AgeLeft(x.left)] : x \in idem}
    /\ hooks' = [h \in Requests |->
                   IF hooks[h].pc = "done"
                   THEN [hooks[h] EXCEPT !.age = AgeHook(@)] ELSE hooks[h]]
    /\ idem' # idem \/ hooks' # hooks
    /\ UNCHANGED <<stepRows, workflows, calc, clock, steps, runs, execs, lock, queue, wk, api, handlerCalls,
                   disturbances>>

InitWebhook ==
    /\ steps \in Workflows
    /\ Len(steps) = 1
    /\ runs = << >>
    /\ execs = {}
    /\ lock = << >>
    /\ queue = EmptyBag
    /\ wk = [w \in Workers |-> IdleWorker]
    /\ api = [pc |-> "idle"]
    /\ handlerCalls = [i \in StepIds |-> 0]
    /\ disturbances = 0
    /\ idem = {}
    /\ hooks = [h \in Requests |-> NewHook]
    /\ clock = 0
    /\ workflows = {WorkflowRow(TRUE, Null)}
    /\ stepRows = StepRowsOf(steps)
    /\ calc = NoCalc

NextWebhook ==
    \/ \E h \in Requests : HookLookup(h)
    \/ \E h \in Requests : HookCreate(h)
    \/ \E h \in Requests : HookBind(h)
    \/ \E h \in Requests : HookEnqueue(h)
    \/ HookCleanup
    \/ HookTick

SpecWebhook == InitWebhook /\ [][NextWebhook]_vars

\* ------------------------------------------------------------ properties
RunIds == DOMAIN runs

\* the worker is between a successful lock acquire and its release
InBody(w) ==
    wk[w].pc \in {"load", "create", "handler", "advance", "next", "fail",
                  "decide", "release"}

HoldersOf(r) == {w \in Workers : InBody(w) /\ wk[w].msg.runId = r}

\* C1: for every run id, at most one worker is between a successful lock
\* acquire and its release in processExecuteStep.
C1_AtMostOneInBody ==
    \A r \in RunIds : Cardinality(HoldersOf(r)) <= 1

\* C2: run.currentStepIndex never decreases, whatever the interleaving of
\* StartRun and ExecuteStep deliveries, duplicates, cancel and retry requests.
C2_IndexMonotonic ==
    [][\A r \in RunIds :
          runs'[r].currentStepIndex >= runs[r].currentStepIndex]_vars

\* a run went through both steps while the broker or the API interfered
C2_Witness ==
    /\ runs[TheRun].currentStepIndex = 2
    /\ disturbances > 0

RowsOf(r, stepId) == {e \in execs : e.runId = r /\ e.stepId = stepId}

\* C3: whenever run.status = completed, every enabled step has exactly one
\* step_execution row with status completed, and that row's output equals
\* run.context.steps[step.name].
C3_CompletedRunHasOneCompletedRowPerStep ==
    \A r \in RunIds :
       runs[r].status = "completed" =>
          \A i \in 1..Len(EnabledSteps(steps)) :
             LET s == EnabledSteps(steps)[i]
                 done == {e \in RowsOf(r, s.id) : e.status = "completed"}
             IN  /\ Cardinality(done) = 1
                 /\ \A e \in done : e.output = runs[r].context.steps[s.name]

\* a two-step run completed after a retried attempt
C3_Witness ==
    /\ runs[TheRun].status = "completed"
    /\ Len(EnabledSteps(steps)) = 2
    /\ \E e \in execs : e.status = "failed"

MaxAttemptOf(rows) ==
    CHOOSE a \in {e.attempt : e \in rows} : \A e \in rows : e.attempt <= a

\* C4: whenever run.status = failed, the row with the highest attempt of the
\* failing step (run.error.stepId) has status failed, and its attempt is
\* min(policy.maxAttempts, first attempt whose error was non-retryable): every
\* earlier attempt failed retryably, and the last one is either non-retryable
\* or the policy's last attempt.
C4_FailedRunLastRow ==
    \A r \in RunIds :
       runs[r].status = "failed" =>
          LET sid == runs[r].error.stepId
              rows == RowsOf(r, sid)
              step == FindStep(EnabledSteps(steps), sid)
              max == PolicyOf(step).maxAttempts
          IN  /\ rows # {}
              /\ \A e \in rows :
                    IF e.attempt = MaxAttemptOf(rows)
                    THEN /\ e.status = "failed"
                         /\ e.attempt <= max
                         /\ (~e.error.retryable \/ e.attempt = max)
                    ELSE /\ e.status = "failed"
                         /\ e.error.retryable
                         /\ e.attempt < max

\* a run failed on its last allowed attempt after retries
C4_Witness ==
    /\ runs[TheRun].status = "failed"
    /\ \E e \in execs : e.attempt > 1 /\ e.status = "failed"

\* C5: for every step the number of handler.execute invocations is at most
\* policy.maxAttempts (3 without a retryPolicy).
C5_RetryBudget ==
    \A i \in 1..Len(steps) :
       handlerCalls[steps[i].id] <= PolicyOf(steps[i]).maxAttempts

\* a step used its whole budget, and a duplicate delivery happened
C5_Witness ==
    /\ \E i \in 1..Len(steps) :
          handlerCalls[steps[i].id] = PolicyOf(steps[i]).maxAttempts
    /\ disturbances > 0
    /\ \E w \in Workers : wk[w].outcome = "thrown"

\* the worker has loaded, or is loading, a run its message is stale for
Skipping(w) ==
    \/ /\ wk[w].pc = "load"
       /\ \/ runs[wk[w].msg.runId].status # "running"
          \/ runs[wk[w].msg.runId].currentStepIndex # wk[w].msg.stepIndex
    \/ wk[w].outcome = "skipped"

\* a worker that returns on the status or index check invokes no handler,
\* creates no step_execution row, writes nothing to the run and enqueues
\* nothing: it only releases the lock
StaleDeliveryWritesNothing ==
    \A w \in Workers :
       (Skipping(w) /\ wk'[w] # wk[w]) =>
          /\ wk'[w].pc \in {"release", "idle"}
          /\ UNCHANGED <<runs, execs, queue, handlerCalls, idem, hooks>>

\* while the stale delivery holds the run lock, no message of the run is
\* put on a queue whose worker has no handler for its step (where it would be
\* rejected and leave the run in running for good)
StaleDeliveryDivertsNothing ==
    \A w \in Workers :
       (Skipping(w) /\ InBody(w)) =>
          \A j \in BagToSet(queue') :
             (/\ j.msg.type = "EXECUTE_STEP"
              /\ j.msg.runId = wk[w].msg.runId
              /\ CopiesIn(j, queue') > CopiesIn(j, queue))
             => StepOf(j.msg).type \in HandlersOf(j.q)

\* C6: processing an ExecuteStep message whose stepIndex differs from
\* run.currentStepIndex, or whose run is not running, invokes no handler,
\* creates no step_execution row, writes nothing to the run and enqueues
\* nothing, and the run's outcome is the same as without that delivery: the
\* delivery keeps no message of the run from the worker that can process it.
C6_StaleMessageHasNoEffect ==
    [][StaleDeliveryWritesNothing /\ StaleDeliveryDivertsNothing]_vars

\* the write-nothing half of C6 on its own
StaleDeliveryFrame == [][StaleDeliveryWritesNothing]_vars

\* a message rejected for want of a handler leaves its run in running with
\* nothing left to drive it
RunLeftWithoutDriver ==
    /\ runs[TheRun].status = "running"
    /\ queue = EmptyBag
    /\ \A w \in Workers : wk[w].pc = "idle"
    /\ api.pc = "idle"

\* C7: once a run is cancelled, a worker inside processExecuteStep writes no
\* further state for it: status, currentStepIndex and context stay as they
\* are, also when its handler was in flight at the moment of cancellation.
C7_CancelledRunIsNotWritten ==
    [][\A w \in Workers :
          (/\ InBody(w)
           /\ wk'[w] # wk[w]
           /\ runs[wk[w].msg.runId].status = "cancelled")
          => runs'[wk[w].msg.runId] = runs[wk[w].msg.runId]]_vars

\* C8: cancel writes only when the run is pending or running at the moment of
\* the write.
C8_CancelWritesOnlyActiveRun ==
    [][(api.pc = "cancelWrite" /\ api'.pc = "idle") =>
          runs[TheRun].status \in {"pending", "running"}]_vars

\* two requests arrived less than 24 hours apart
Within24h(h1, h2) ==
    /\ hooks[h1].age < IDEMPOTENCY_TTL_MS
    /\ hooks[h2].age < IDEMPOTENCY_TTL_MS

\* C9: two webhook POSTs with the same X-Idempotency-Key within 24 hours,
\* sequential or concurrent, get the same runId in their responses: one run
\* was created and one StartRun enqueued, so not both were accepted with 202.
C9_SameKeySameRun ==
    \A h1, h2 \in Requests :
       (/\ h1 # h2
        /\ hooks[h1].pc = "done" /\ hooks[h2].pc = "done"
        /\ hooks[h1].key # Null /\ hooks[h1].key = hooks[h2].key
        /\ Within24h(h1, h2))
       => /\ hooks[h1].runId = hooks[h2].runId
          /\ ~(hooks[h1].code = 202 /\ hooks[h2].code = 202)

Bound(k) == \E x \in idem : x.key = k /\ x.left > 0
RunOf(k) == FindByIdempotencyKey(idem, k)

\* C10: an idempotency key is bound at most once within its 24 hours: while
\* key k maps to run r and is unexpired no step changes the mapping (a further
\* setIdempotencyKey(k, r') included), and a lookup of k by the webhook finds
\* r exactly when the binding is unexpired.
C10_KeyBoundOnce ==
    [][/\ \A k \in Keys :
            (Bound(k) /\ \E x \in idem' : x.key = k /\ x.left > 0)
               => \E x \in idem' : x.key = k /\ x.runId = RunOf(k)
       /\ \A k \in Keys : Cardinality({x \in idem' : x.key = k}) <= 1
       /\ \A h \in Requests :
            (hooks[h].pc = "new" /\ hooks'[h].pc # "new"
               /\ hooks'[h].key # Null)
            => IF Bound(hooks'[h].key)
               THEN hooks'[h].pc = "done"
                    /\ hooks'[h].runId = RunOf(hooks'[h].key)
               ELSE hooks'[h].pc = "create"]_vars

\* a second request with a bound key has made its own run and gone through
\* setIdempotencyKey, and the key still maps to the first run
C10_Witness ==
    \E h \in Requests :
       /\ hooks[h].pc \in {"enqueue", "done"}
       /\ hooks[h].code # 200
       /\ hooks[h].key # Null
       /\ Bound(hooks[h].key)
       /\ RunOf(hooks[h].key) # hooks[h].runId

\* C11: in every reachable state of a run, completedAt is set if and only if
\* status is completed, failed or cancelled.
C11_CompletedAtIffTerminal ==
    \A r \in RunIds :
       (runs[r].completedAt # Null)
          <=> (runs[r].status \in {"completed", "failed", "cancelled"})

\* C12: in every reachable state of a run, error is set if and only if
\* status = failed.
C12_ErrorIffFailed ==
    \A r \in RunIds :
       (runs[r].error # NoError) <=> (runs[r].status = "failed")

\* a worker takes a StartRun message in this step
TakesStartRun(w) == wk[w].pc = "idle" /\ wk'[w].pc = "sr_next"

\* C13: processStartRun is idempotent: a further delivery of a run's StartRun
\* message after an earlier one was processed (the run is running, completed
\* or failed, which only a processed StartRun can lead to) leaves the run's
\* status, currentStepIndex and context as the single delivery left them.
\* (In a workflow with an enabled step no later step restores a status the
\* delivery overwrites: only a message for the current index of a running
\* run writes the run.)
C13_StartRunIdempotent ==
    [][\A w \in Workers :
          (/\ TakesStartRun(w)
           /\ Len(EnabledSteps(steps)) > 0
           /\ runs[wk'[w].msg.runId].status
                 \in {"running", "completed", "failed"})
          => runs'[wk'[w].msg.runId] = runs[wk'[w].msg.runId]]_vars

\* ------------------------------------------------- runs under fairness
\* an http step followed by an ai step
HttpThenAi ==
    <<MkStep(1, "http", TRUE, Policy(1)), MkStep(2, "ai", TRUE, Policy(1))>>

\* a run as the webhook leaves it (created, StartRun enqueued); the broker
\* delivers every message once and no REST request is made
InitLive ==
    /\ steps \in Workflows \cup {HttpThenAi}
    /\ runs = [r \in {TheRun} |-> NewRun]
    /\ execs = {}
    /\ lock = [r \in {TheRun} |-> 0]
    /\ queue = SetToBag({Job("execute", StartRunMsg(TheRun), 0)})
    /\ wk = [w \in Workers |-> IdleWorker]
    /\ api = [pc |-> "idle"]
    /\ handlerCalls = [i \in StepIds |-> 0]
    /\ disturbances = MaxDisturbances
    /\ idem = {}
    /\ hooks = << >>
    /\ clock = 0
    /\ workflows = {WorkflowRow(TRUE, Null)}
    /\ stepRows = StepRowsOf(steps)
    /\ calc = NoCalc

NextLive ==
    \/ \E w \in Workers : WorkerStep(w)
    \/ Tick

\* every worker that can take a step takes one, and time goes on
SpecLive ==
    /\ InitLive
    /\ [][NextLive]_vars
    /\ \A w \in Workers : WF_vars(WorkerStep(w))
    /\ WF_vars(Tick)

\* C14: under fair scheduling of workers and queue delivery, with every
\* handler call returning or timing out, every run eventually reaches status
\* completed, failed or cancelled, also when messages hit lock contention.
C14_RunTerminates ==
    <>(runs[TheRun].status \in {"completed", "failed", "cancelled"})

\* ------------------------------------------------------ runs against time
\* a delay step with config.durationMs = d
MkDelay(id, enabled, d) ==
    [MkStep(id, "delay", enabled, NoPolicy) EXCEPT !.durationMs = d]

\* workflows with a delay step first, last, alone, and without one
TimedWorkflows ==
    { <<MkDelay(1, TRUE, TickMs)>>,
      <<MkStep(1, "http", FALSE, NoPolicy), MkDelay(2, TRUE, 2 * TickMs)>>,
      <<MkDelay(1, TRUE, TickMs), MkStep(2, "http", TRUE, Policy(1))>>,
      <<MkDelay(1, TRUE, 2 * TickMs), MkStep(2, "ai", TRUE, Policy(1))>>,
      <<MkStep(1, "http", TRUE, Policy(2)), MkDelay(2, TRUE, TickMs)>>,
      <<MkStep(1, "http", TRUE, Policy(1)), MkStep(2, "http", TRUE, Policy(1))>> }

\* time passes and the run's age is recorded, up to MaxClock quanta
ClockTick ==
    /\ Elapse
    /\ clock' = Min(clock + TickMs, MaxClock * TickMs)

\* the run is created (started_at = now) and its StartRun message enqueued;
\* the broker delivers at most one message twice
InitTimed ==
    /\ steps \in TimedWorkflows
    /\ runs = [r \in {TheRun} |-> NewRun]
    /\ execs = {}
    /\ lock = [r \in {TheRun} |-> 0]
    /\ queue = SetToBag({Job("execute", StartRunMsg(TheRun), 0)})
    /\ wk = [w \in Workers |-> IdleWorker]
    /\ api = [pc |-> "idle"]
    /\ handlerCalls = [i \in StepIds |-> 0]
    /\ disturbances = MaxDisturbances - 1
    /\ idem = {}
    /\ hooks = << >>
    /\ clock = 0
    /\ workflows = {WorkflowRow(TRUE, Null)}
    /\ stepRows = StepRowsOf(steps)
    /\ calc = NoCalc

NextTimed ==
    \/ \E w \in Workers : WorkerStep(w)
    \/ ClockTick

SpecTimed == InitTimed /\ [][NextTimed]_vars

\* the run's only enabled step is a delay step
OnlyDelay ==
    /\ Len(EnabledSteps(steps)) = 1
    /\ EnabledSteps(steps)[1].type = "delay"

\* C15: for a run whose only enabled step is delay(D), completedAt is at
\* least startedAt + D: the run is not completed before D has passed since
\* its creation.
C15_DelayRunCompletesAfterDelay ==
    (OnlyDelay /\ runs[TheRun].status = "completed")
       => clock >= EnabledSteps(steps)[1].durationMs

\* the message a worker adds to a queue in this step
Added(j) == CopiesIn(j, queue') > CopiesIn(j, queue)

\* the worker goes on from a successful step and enqueues the next step
EnqueuesNext(w) ==
    /\ wk[w].pc = "next"
    /\ wk'[w].pc # "next"
    /\ wk[w].msg.stepIndex + 1 < Len(EnabledSteps(steps))

\* C16: when step i is a delay step with durationMs = D and a step i+1
\* exists, the ExecuteStep message for step i+1 is enqueued with delay D, and
\* with no delay when step i is not a delay step; so the handler of the step
\* after a delay step is not invoked before D has passed.
C16_NextStepDelayed ==
    /\ [][\A w \in Workers :
             EnqueuesNext(w) =>
                \E j \in BagToSet(queue') :
                   /\ Added(j)
                   /\ j.msg.type = "EXECUTE_STEP"
                   /\ j.msg.stepIndex = wk[w].msg.stepIndex + 1
                   /\ j.msg.attempt = 1
                   /\ j.delay = IF StepOf(wk[w].msg).type = "delay"
                                THEN StepOf(wk[w].msg).durationMs
                                ELSE 0]_vars
    /\ [](\A i \in 2..Len(EnabledSteps(steps)) :
            LET es == EnabledSteps(steps)
            IN  (es[i - 1].type = "delay" /\ handlerCalls[es[i].id] > 0)
                   => clock >= es[i - 1].durationMs)

\* the step after a delay step has run, and a step after an http step was
\* enqueued at once
C16_Witness ==
    /\ Len(EnabledSteps(steps)) = 2
    /\ EnabledSteps(steps)[1].type = "delay"
    /\ handlerCalls[EnabledSteps(steps)[2].id] > 0
    /\ clock = EnabledSteps(steps)[1].durationMs

\* the run waits for the message that follows a completed delay step: the
\* message is delayed and the step it is for has not been started
DelayPending(r) ==
    /\ runs[r].status = "running"
    /\ \E j \in BagToSet(queue) :
          /\ j.delay > 0
          /\ j.msg.type = "EXECUTE_STEP"
          /\ j.msg.runId = r
          /\ j.msg.attempt = 1
          /\ j.msg.stepIndex >= 1
          /\ j.msg.stepIndex = runs[r].currentStepIndex
          /\ EnabledSteps(steps)[j.msg.stepIndex].type = "delay"
          /\ RowsOf(r, j.msg.stepId) = {}

LockQuantum == LOCK_TTL \div 3

DecBy(t, q) == IF t > q THEN t - q ELSE 0

\* ms since worker w acquired the lock
SinceAcquire(w) == DEFAULT_STEP_TIMEOUT_MS - wk[w].timer

\* lockManager.acquire returns true: the key was absent and is set for 60 s
LockAcquire(w) ==
    /\ wk[w].pc = "idle"
    /\ lock[TheRun] = 0
    /\ lock' = [lock EXCEPT ![TheRun] = LOCK_TTL]
    /\ wk' = [wk EXCEPT ![w] =
                 [IdleWorker EXCEPT !.pc = "body",
                                    !.msg = ExecuteStepMsg(TheRun, 0, 1, 1),
                                    !.timer = DEFAULT_STEP_TIMEOUT_MS,
                                    !.outcome = "acquired"]]
    /\ UNCHANGED <<stepRows, workflows, calc, clock, steps, runs, execs, queue, api, handlerCalls,
                   disturbances, idem, hooks>>

\* lockManager.acquire returns false: the key exists
LockDenied(w) ==
    /\ wk[w].pc = "idle"
    /\ lock[TheRun] > 0
    /\ wk[w].outcome # "denied"
    /\ wk' = [wk EXCEPT ![w] = [IdleWorker EXCEPT !.outcome = "denied"]]
    /\ UNCHANGED <<stepRows, workflows, calc, clock, steps, runs, execs, lock, queue, api, handlerCalls,
                   disturbances, idem, hooks>>

\* lockManager.release in the finally block: redis.del(key)
LockRelease(w) ==
    /\ wk[w].pc = "body"
    /\ lock' = [lock EXCEPT ![TheRun] = 0]
    /\ wk' = [wk EXCEPT ![w] = IdleWorker]
    /\ UNCHANGED <<stepRows, workflows, calc, clock, steps, runs, execs, queue, api, handlerCalls,
                   disturbances, idem, hooks>>

\* the key is the one worker w set: it exists with the lease w gave it
HoldsKey(w) ==
    /\ lock[TheRun] > 0
    /\ lock[TheRun] = LOCK_TTL - SinceAcquire(w)

\* the worker process dies in the body and never calls release; whether it
\* held the key at that moment is kept
LockCrash(w) ==
    /\ wk[w].pc = "body"
    /\ wk' = [wk EXCEPT ![w].pc = "crashed",
                        ![w].outcome = IF HoldsKey(w) THEN "held" ELSE "lost"]
    /\ UNCHANGED <<stepRows, workflows, calc, clock, steps, runs, execs, lock, queue, api, handlerCalls,
                   disturbances, idem, hooks>>

\* a third of the lease passes; a live worker leaves the body by its deadline
LockTick ==
    /\ \A w \in Workers : wk[w].pc = "body" => wk[w].timer > 0
    /\ \/ lock[TheRun] > 0
       \/ \E w \in Workers : wk[w].pc # "idle" /\ wk[w].timer > 0
    /\ lock' = [r \in DOMAIN lock |-> DecBy(lock[r], LockQuantum)]
    /\ wk' = [w \in Workers |->
                 IF wk[w].pc = "idle" THEN wk[w]
                 ELSE [wk[w] EXCEPT !.timer = DecBy(@, LockQuantum)]]
    /\ UNCHANGED <<stepRows, workflows, calc, clock, steps, runs, execs, queue, api, handlerCalls,
                   disturbances, idem, hooks>>

InitLock ==
    /\ steps \in {<<MkStep(1, "http", TRUE, NoPolicy)>>}
    /\ runs = [r \in {TheRun} |-> UpdateStatus(NewRun, "running", NoUpdates)]
    /\ execs = {}
    /\ lock = [r \in {TheRun} |-> 0]
    /\ queue = EmptyBag
    /\ wk = [w \in Workers |-> IdleWorker]
    /\ api = [pc |-> "idle"]
    /\ handlerCalls = [i \in StepIds |-> 0]
    /\ disturbances = 0
    /\ idem = {}
    /\ hooks = << >>
    /\ clock = 0
    /\ workflows = {WorkflowRow(TRUE, Null)}
    /\ stepRows = StepRowsOf(steps)
    /\ calc = NoCalc

NextLock ==
    \/ \E w \in Workers : LockAcquire(w)
    \/ \E w \in Workers : LockDenied(w)
    \/ \E w \in Workers : LockRelease(w)
    \/ \E w \in Workers : LockCrash(w)
    \/ LockTick

SpecLock == InitLock /\ [][NextLock]_vars

\* worker w crashed while it held the lock
CrashedHolding(w) == wk[w].pc = "crashed" /\ wk[w].outcome = "held"

\* some worker's acquire succeeds in this step
AcquireSucceeds ==
    \E v \in Workers : wk[v].pc = "idle" /\ wk'[v].pc = "body"

\* C18: if a worker crashes (never calls release) while holding the lock of
\* a run, a lock acquire for that run fails before 60000 ms have elapsed
\* since the crashed worker's acquisition, and succeeds once they have
\* elapsed (the key is then absent, unless a later acquisition holds it).
C18_CrashedLockReclaimedAfterTtl ==
    /\ [][\A w \in Workers :
             (CrashedHolding(w) /\ AcquireSucceeds)
                => SinceAcquire(w) >= LOCK_TTL]_vars
    /\ [](\A w \in Workers :
            (CrashedHolding(w) /\ SinceAcquire(w) >= LOCK_TTL)
               => \/ lock[TheRun] = 0
                  \/ \E v \in Workers :
                        v # w /\ wk[v].pc # "idle"
                              /\ SinceAcquire(v) < LOCK_TTL)

(***************************************************************************)
(* calculateBackoff as the processor calls it when a step has failed.  The *)
(* arguments are a retry policy the RetryPolicy schema accepts and the     *)
(* attempt number of the failed message; Math.random() is a choice of the  *)
(* jitter factor, in hundredths, from 0.10 up to but excluding 0.20.       *)
(***************************************************************************)
MaxAttempt == 4

BackoffTypes == {"fixed", "linear", "exponential"}
\* the ends of the ranges the schema allows, its defaults, and an initial
\* delay just below the smallest cap
InitialDelays == {100, 900, DEFAULT_INITIAL_DELAY_MS, 60000}
MaxDelays == {1000, DEFAULT_MAX_DELAY_MS, 3600000}
AttemptLimits == {1, DEFAULT_MAX_ATTEMPTS, MaxAttempt + 1}
\* 0.1 + Math.random() * 0.1, in hundredths
RandomJitterPcts == 10..19

RetryPolicies ==
    [maxAttempts : AttemptLimits, backoffType : BackoffTypes,
     initialDelayMs : InitialDelays, maxDelayMs : MaxDelays]

\* a step of the run has failed with a retryable error on some attempt
InitBackoff ==
    /\ \E p \in RetryPolicies \cup {NoPolicy} :
          steps = <<MkStep(1, "http", TRUE, p)>>
    /\ runs = [r \in {TheRun} |-> NewRun]
    /\ execs = {}
    /\ lock = [r \in {TheRun} |-> 0]
    /\ queue = EmptyBag
    /\ wk = [w \in Workers |-> IdleWorker]
    /\ api = [pc |-> "idle"]
    /\ handlerCalls = [i \in StepIds |-> 0]
    /\ disturbances = 0
    /\ idem = {}
    /\ hooks = << >>
    /\ clock = 0
    /\ workflows = {WorkflowRow(TRUE, Null)}
    /\ stepRows = StepRowsOf(steps)
    /\ \E a \in 1..MaxAttempt :
          calc = [pc |-> "failed", policy |-> PolicyOf(steps[1]),
                  attempt |-> a]

\* the retry branch: the delay of the retry message
ScheduleRetryDelay(jp) ==
    /\ calc.pc = "failed"
    /\ calc.attempt < calc.policy.maxAttempts
    /\ calc' = [pc |-> "scheduled", policy |-> calc.policy,
                attempt |-> calc.attempt,
                delay |-> CalculateBackoff(calc.policy.backoffType,
                                           calc.attempt,
                                           calc.policy.initialDelayMs,
                                           calc.policy.maxDelayMs, jp)]
    /\ UNCHANGED <<stepRows, workflows, clock, steps, runs, execs, lock, queue, wk, api,
                   handlerCalls, disturbances, idem, hooks>>

\* the other branch: the attempts are used up, no retry is scheduled
NoRetryLeft ==
    /\ calc.pc = "failed"
    /\ calc.attempt >= calc.policy.maxAttempts
    /\ calc' = [pc |-> "exhausted", policy |-> calc.policy,
                attempt |-> calc.attempt]
    /\ UNCHANGED <<stepRows, workflows, clock, steps, runs, execs, lock, queue, wk, api,
                   handlerCalls, disturbances, idem, hooks>>

NextBackoff ==
    \/ \E jp \in RandomJitterPcts : ScheduleRetryDelay(jp)
    \/ NoRetryLeft

SpecBackoff == InitBackoff /\ [][NextBackoff]_vars

RetryScheduled == calc.pc = "scheduled"

\* base x 2 x ... x 2, n times
RECURSIVE Doubled(_, _)
Doubled(base, n) == IF n <= 0 THEN base ELSE Doubled(base + base, n - 1)

\* the base delay as the specification's table gives it
SpecBase(p, attempt) ==
    IF p.backoffType = "fixed" THEN p.initialDelayMs
    ELSE IF p.backoffType = "linear" THEN attempt * p.initialDelayMs
    ELSE Doubled(p.initialDelayMs, attempt - 1)

\* The bounds as first stated: initialDelayMs x 1.10 <= delay and
\* delay <= min(base x 1.20, maxDelayMs), for every scheduled retry.
C19_BackoffBounds ==
    RetryScheduled =>
        /\ 100 * calc.delay >= 110 * calc.policy.initialDelayMs
        /\ 100 * calc.delay <= 120 * SpecBase(calc.policy, calc.attempt)
        /\ calc.delay <= calc.policy.maxDelayMs

\* C19 (amended): for every retry the processor schedules, with any policy
\* the schema allows, min(initialDelayMs x 1.10, maxDelayMs) <= delay and
\* delay <= min(base x 1.20, maxDelayMs).
C19_BackoffBoundsCapped ==
    RetryScheduled =>
        /\ \/ 100 * calc.delay >= 110 * calc.policy.initialDelayMs
           \/ calc.delay >= calc.policy.maxDelayMs
        /\ 100 * calc.delay <= 120 * SpecBase(calc.policy, calc.attempt)
        /\ calc.delay <= calc.policy.maxDelayMs

\* a retry is scheduled under a policy whose cap lies below
\* initialDelayMs x 1.10, and its delay is the cap
C19_Witness ==
    /\ RetryScheduled
    /\ 100 * calc.policy.maxDelayMs < 110 * calc.policy.initialDelayMs
    /\ calc.delay = calc.policy.maxDelayMs

\* C20: calculateBackoff(type, attempt, initialMs, maxMs) is
\* min(base x (1 + j), maxMs) for some j in [0.10, 0.20], where base is
\* initialMs (fixed), initialMs x attempt (linear) or
\* initialMs x 2^(attempt - 1) (exponential): the cap is applied after the
\* jitter, so the result never exceeds maxMs and is maxMs whenever
\* base x 1.10 is already above it.
C20_BackoffFormula ==
    RetryScheduled =>
        LET base == SpecBase(calc.policy, calc.attempt)
            maxMs == calc.policy.maxDelayMs
        IN  /\ \E j \in 10..20 :
                  100 * calc.delay
                     = IF base * (100 + j) <= 100 * maxMs
                       THEN base * (100 + j) ELSE 100 * maxMs
            /\ calc.delay <= maxMs
            /\ (110 * base >= 100 * maxMs) => calc.delay = maxMs

\* the cap bites only because of the jitter: base is below maxMs, base with
\* its jitter is above, and the delay is maxMs
C20_Witness ==
    /\ RetryScheduled
    /\ SpecBase(calc.policy, calc.attempt) < calc.policy.maxDelayMs
    /\ calc.delay = calc.policy.maxDelayMs

(***************************************************************************)
(* classifyHttpError, applied to the status of a response.  The code       *)
(* string `HTTP_${status}` is the pair of its prefix and the number.       *)
(***************************************************************************)
MaxStatus == 610

HttpStatuses == 0..MaxStatus

HttpCode(status) == <<"HTTP_", status>>

\* classifyHttpError with the 4xx range tested before the single statuses
ClassifyHttpErrorRangeFirst(status) ==
    IF status >= 500 /\ status < 600
    THEN [category |-> "TRANSIENT", retryable |-> TRUE,
          code |-> HttpCode(status)]
    ELSE IF status >= 400 /\ status < 500
    THEN [category |-> "VALIDATION", retryable |-> FALSE,
          code |-> HttpCode(status)]
    ELSE [category |-> "FATAL", retryable |-> FALSE,
          code |-> HttpCode(status)]

ClassifyHttpError(status) ==
    IF status >= 500 /\ status < 600
    THEN [category |-> "TRANSIENT", retryable |-> TRUE,
          code |-> HttpCode(status)]
    ELSE IF status = 429
    THEN [category |-> "TRANSIENT", retryable |-> TRUE,
          code |-> HttpCode(429)]
    ELSE IF status = 401 \/ status = 403
    THEN [category |-> "AUTHORIZATION", retryable |-> FALSE,
          code |-> HttpCode(status)]
    ELSE IF status = 404
    THEN [category |-> "NOT_FOUND", retryable |-> FALSE,
          code |-> HttpCode(404)]
    ELSE IF status >= 400 /\ status < 500
    THEN [category |-> "VALIDATION", retryable |-> FALSE,
          code |-> HttpCode(status)]
    ELSE [category |-> "FATAL", retryable |-> FALSE,
          code |-> HttpCode(status)]

\* a response with some status has arrived
InitHttp ==
    /\ steps \in {<<MkStep(1, "http", TRUE, NoPolicy)>>}
    /\ runs = [r \in {TheRun} |-> NewRun]
    /\ execs = {}
    /\ lock = [r \in {TheRun} |-> 0]
    /\ queue = EmptyBag
    /\ wk = [w \in Workers |-> IdleWorker]
    /\ api = [pc |-> "idle"]
    /\ handlerCalls = [i \in StepIds |-> 0]
    /\ disturbances = 0
    /\ idem = {}
    /\ hooks = << >>
    /\ clock = 0
    /\ workflows = {WorkflowRow(TRUE, Null)}
    /\ stepRows = StepRowsOf(steps)
    /\ \E s \in HttpStatuses : calc = [pc |-> "response", status |-> s]

\* const error = classifyHttpError(response.status, ...)
ClassifyResponse ==
    /\ calc.pc = "response"
    /\ calc' = [pc |-> "classified", status |-> calc.status,
                error |-> ClassifyHttpError(calc.status)]
    /\ UNCHANGED <<stepRows, workflows, clock, steps, runs, execs, lock, queue, wk, api,
                   handlerCalls, disturbances, idem, hooks>>

NextHttp == ClassifyResponse

SpecHttp == InitHttp /\ [][NextHttp]_vars

\* C21: classifyHttpError(status) is TRANSIENT for 500..599 and 429,
\* AUTHORIZATION for 401 and 403, NOT_FOUND for 404, VALIDATION for every
\* other status in 400..499 and FATAL for every other status; retryable is
\* true exactly when the category is TRANSIENT or RESOURCE; code is
\* HTTP_<status>.
C21_ClassifyHttpError ==
    calc.pc = "classified" =>
        LET s == calc.status
            e == calc.error
        IN  /\ (s \in (500..599) \cup {429}) <=> e.category = "TRANSIENT"
            /\ (s \in {401, 403}) <=> e.category = "AUTHORIZATION"
            /\ (s = 404) <=> e.category = "NOT_FOUND"
            /\ (s \in (400..499) \ {401, 403, 404, 429})
                  <=> e.category = "VALIDATION"
            /\ (s \notin 400..599) <=> e.category = "FATAL"
            /\ e.retryable <=> e.category \in {"TRANSIENT", "RESOURCE"}
            /\ e.code = <<"HTTP_", s>>

\* the rate-limit status, inside the 4xx range, has been classified
C21_Witness ==
    /\ calc.pc = "classified"
    /\ calc.status = 429
    /\ calc.error.retryable

(***************************************************************************)
(* Webhook admission: findBySlug, the enabled flag and the signature       *)
(* check, ahead of the idempotency lookup.  An HMAC is the pair of its key *)
(* and the signed text: two HMACs agree exactly when both agree.           *)
(***************************************************************************)
TheBody == "b1"

\* crypto.createHmac('sha256', secret).update(bodyString).digest('hex')
Hmac(secret, body) == <<secret, body>>

\* what a client may send as X-Webhook-Signature for the body b1: nothing,
\* the signature under s1, one under another secret, one over another body,
\* or the bare digest
NoSignature == <<"absent", <<"", "">>>>
GoodSignature == <<"sha256=", Hmac("s1", TheBody)>>
SignatureHeaders ==
    {NoSignature, GoodSignature,
     <<"sha256=", Hmac("s2", TheBody)>>, <<"sha256=", Hmac("s1", "b2")>>,
     <<"", Hmac("s1", TheBody)>>}

\* the requests: any header for the known slug, none or the good one for
\* the unknown slug
ArrivingRequests ==
    {<<TheSlug, g>> : g \in SignatureHeaders}
       \cup {<<"unknown", g>> : g \in {NoSignature, GoodSignature}}

\* SELECT * FROM workflows WHERE slug = $1
FindBySlug(rows, slug) ==
    IF \E x \in rows : x.slug = slug
    THEN CHOOSE x \in rows : x.slug = slug
    ELSE NoRun

\* a signature check that accepts whatever header is present
SignaturePresent(secret, header, body) == header # NoSignature

\* signature present and equal to `sha256=${expectedSignature}`
SignatureAccepted(secret, header, body) ==
    /\ header # NoSignature
    /\ header = <<"sha256=", Hmac(secret, body)>>

\* the reply of the three checks: 404, 400, 401, or 0 when the request goes on
AdmissionCode(rows, slug, header, body) ==
    LET workflow == FindBySlug(rows, slug)
    IN  IF workflow = NoRun THEN 404
        ELSE IF ~workflow.enabled THEN 400
        ELSE IF workflow.webhookSecret # Null
                /\ ~SignatureAccepted(workflow.webhookSecret, header, body)
        THEN 401
        ELSE 0

ArrivingHook(slug, header) ==
    [pc |-> "arrive", key |-> Null, runId |-> NoRunId, code |-> 0, age |-> 0,
     slug |-> slug, signature |-> header]

\* POST /webhooks/:slug up to the signature check
HookAdmit(h) ==
    /\ hooks[h].pc = "arrive"
    /\ LET code == AdmissionCode(workflows, hooks[h].slug,
                                 hooks[h].signature, TheBody)
       IN  hooks' = [hooks EXCEPT ![h] =
              IF code = 0 THEN [@ EXCEPT !.pc = "new"]
              ELSE [@ EXCEPT !.pc = "done", !.code = code]]
    /\ UNCHANGED <<stepRows, workflows, calc, clock, steps, runs, execs, lock,
                   queue, wk, api, handlerCalls, disturbances, idem>>

\* one workflow, enabled or not, with or without a secret; every request
\* names a slug and carries some signature header
InitAdmit ==
    /\ steps \in {<<MkStep(1, "http", TRUE, NoPolicy)>>}
    /\ runs = << >>
    /\ execs = {}
    /\ lock = << >>
    /\ queue = EmptyBag
    /\ wk = [w \in Workers |-> IdleWorker]
    /\ api = [pc |-> "idle"]
    /\ handlerCalls = [i \in StepIds |-> 0]
    /\ disturbances = 0
    /\ idem = {}
    /\ hooks \in [Requests -> {ArrivingHook(a[1], a[2]) :
                                  a \in ArrivingRequests}]
    /\ clock = 0
    /\ calc = NoCalc
    /\ \E e \in BOOLEAN, s \in {Null, "s1"} : workflows = {WorkflowRow(e, s)}
    /\ stepRows = StepRowsOf(steps)

NextAdmit ==
    \/ \E h \in Requests : HookAdmit(h)
    \/ \E h \in Requests : HookLookup(h)
    \/ \E h \in Requests : HookCreate(h)
    \/ \E h \in Requests : HookBind(h)
    \/ \E h \in Requests : HookEnqueue(h)

SpecAdmit == InitAdmit /\ [][NextAdmit]_vars

TheWorkflowRow == CHOOSE x \in workflows : TRUE

\* the request passes all three checks, as the claim lists them
PassesChecks(h) ==
    /\ hooks[h].slug = TheWorkflowRow.slug
    /\ TheWorkflowRow.enabled
    /\ TheWorkflowRow.webhookSecret # Null
          => hooks[h].signature
                = <<"sha256=", Hmac(TheWorkflowRow.webhookSecret, TheBody)>>

\* the step belongs to request h
Moves(h) == hooks'[h] # hooks[h]

\* C22: a request with an unknown slug (404), for a disabled workflow (400),
\* or with a missing or wrong signature where the workflow has a secret (401)
\* creates no run, binds no key and enqueues nothing, and is answered with
\* that code; only a request that passes the three checks creates a run, and
\* StartRun goes on the execute queue.
C22_RejectedRequestHasNoEffect ==
    /\ [][\A h \in Requests :
             (Moves(h) /\ ~PassesChecks(h))
                => /\ runs' = runs /\ idem' = idem /\ queue' = queue
                   /\ hooks'[h].pc = "done"
                   /\ hooks'[h].runId = NoRunId
                   /\ hooks'[h].code =
                         IF hooks[h].slug # TheWorkflowRow.slug THEN 404
                         ELSE IF ~TheWorkflowRow.enabled THEN 400 ELSE 401]_vars
    /\ [](\A j \in BagToSet(queue) :
             j.msg.type = "START_RUN" => j.q = "execute")
    /\ [](Cardinality(DOMAIN runs)
             <= Cardinality({h \in Requests : PassesChecks(h)}))

\* one request was refused for its signature and another, correctly signed,
\* has had its run created and enqueued
C22_Witness ==
    \E h1, h2 \in Requests :
       /\ hooks[h1].pc = "done" /\ hooks[h1].code = 401
       /\ hooks[h1].signature # NoSignature
       /\ hooks[h2].pc = "done" /\ hooks[h2].code = 202
       /\ TheWorkflowRow.webhookSecret # Null

(***************************************************************************)
(* The steps of one workflow under addStep, deleteStep and reorderSteps.   *)
(* Each call is one transaction; table steps has UNIQUE(workflow_id,       *)
(* "order") and UNIQUE(workflow_id, name), checked at every statement, and *)
(* a statement that violates one aborts the transaction, which leaves the  *)
(* table as it was.                                                        *)
(***************************************************************************)
MaxSteps == 3
MaxReorder == 3

NewStepNames == {"a", "b", "c"}
\* ids a reorder request may name: those ever created and one never created
RequestedIds == 1..(MaxSteps + 1)

Conflict == {[id |-> 0, workflowId |-> TheWorkflow, order |-> 0 - 1,
              name |-> "conflict"]}

RECURSIVE SeqsUpTo(_, _)
SeqsUpTo(S, n) ==
    IF n = 0 THEN {<< >>}
    ELSE LET shorter == SeqsUpTo(S, n - 1)
         IN  shorter \cup {Append(q, x) : q \in shorter, x \in S}

MaxOrder(rows) ==
    IF rows = {} THEN 0 - 1
    ELSE CHOOSE o \in {x.order : x \in rows} :
            \A y \in rows : y.order <= o

\* SELECT MAX("order"); INSERT ... (max ?? -1) + 1
AddStep(name) ==
    /\ calc.pc = "steps"
    /\ calc.created < MaxSteps
    /\ \A x \in stepRows : x.name # name
    /\ stepRows' = stepRows \cup
          {[id |-> calc.created + 1, workflowId |-> TheWorkflow,
            order |-> MaxOrder(stepRows) + 1, name |-> name]}
    /\ calc' = [calc EXCEPT !.created = @ + 1]
    /\ UNCHANGED <<workflows, clock, steps, runs, execs, lock, queue, wk, api,
                   handlerCalls, disturbances, idem, hooks>>

\* DELETE the step; UPDATE steps SET "order" = "order" - 1 WHERE "order" > $2
DeleteStep(stepId) ==
    /\ calc.pc = "steps"
    /\ \E step \in stepRows :
         /\ step.id = stepId
         /\ stepRows' =
               {IF x.order > step.order
                THEN [x EXCEPT !.order = @ - 1] ELSE x :
                   x \in stepRows \ {step}}
    /\ UNCHANGED <<workflows, calc, clock, steps, runs, execs, lock, queue, wk,
                   api, handlerCalls, disturbances, idem, hooks>>

\* for i: UPDATE steps SET "order" = i WHERE id = stepIds[i]; an update that
\* meets another row with that order violates the unique constraint
RECURSIVE ReorderFrom(_, _, _)
ReorderFrom(rows, stepIds, i) ==
    IF i > Len(stepIds) THEN rows
    ELSE IF \E x \in rows : x.id = stepIds[i]
                /\ \E y \in rows : y.id # x.id /\ y.order = i - 1
    THEN Conflict
    ELSE ReorderFrom({IF x.id = stepIds[i]
                      THEN [x EXCEPT !.order = i - 1] ELSE x : x \in rows},
                     stepIds, i + 1)

ReorderSteps(stepIds) ==
    /\ calc.pc = "steps"
    /\ ReorderFrom(stepRows, stepIds, 1) # Conflict
    /\ stepRows' = ReorderFrom(stepRows, stepIds, 1)
    /\ stepRows' # stepRows
    /\ UNCHANGED <<workflows, calc, clock, steps, runs, execs, lock, queue, wk,
                   api, handlerCalls, disturbances, idem, hooks>>

\* a workflow just created: no steps
InitSteps ==
    /\ steps = << >>
    /\ runs = << >>
    /\ execs = {}
    /\ lock = << >>
    /\ queue = EmptyBag
    /\ wk = [w \in Workers |-> IdleWorker]
    /\ api = [pc |-> "idle"]
    /\ handlerCalls = [i \in StepIds |-> 0]
    /\ disturbances = 0
    /\ idem = {}
    /\ hooks = << >>
    /\ clock = 0
    /\ calc = [pc |-> "steps", created |-> 0]
    /\ workflows = {WorkflowRow(TRUE, Null)}
    /\ stepRows = {}

NextSteps ==
    \/ \E n \in NewStepNames : AddStep(n)
    \/ \E i \in RequestedIds : DeleteStep(i)
    \/ \E q \in SeqsUpTo(RequestedIds, MaxReorder) : ReorderSteps(q)

SpecSteps == InitSteps /\ [][NextSteps]_vars

OrdersOf(rows) == {x.order : x \in rows}

\* C23: within a workflow the step orders are pairwise distinct, and after
\* any deleteStep the surviving steps' orders are exactly 0..n-1, whatever
\* addStep, deleteStep and reorderSteps calls came before.
C23_OrdersDistinctAndDenseAfterDelete ==
    /\ [](\A x, y \in stepRows : x.id # y.id => x.order # y.order)
    /\ [][Cardinality(stepRows') < Cardinality(stepRows)
            => OrdersOf(stepRows') = 0..(Cardinality(stepRows') - 1)]_vars

\* the failure path of worker w decides in this step
Decides(w) == wk[w].pc = "decide" /\ wk'[w].pc # "decide"

\* the messages this step adds to the queues
NewJobs == {j \in BagToSet(queue') : CopiesIn(j, queue') > CopiesIn(j, queue)}

\* C24: in the failure path a retry is scheduled if and only if the
\* classified error is retryable and msg.attempt < policy.maxAttempts; the
\* retry message carries the same runId, stepIndex and stepId with attempt + 1
\* and the run's currentStepIndex and status stay as they are; otherwise the
\* run is written failed with completedAt and error {code, stepId, stepName}
\* and no message is enqueued.
C24_RetryOrTerminalFailure ==
    [][\A w \in Workers :
         Decides(w) =>
            LET m == wk[w].msg
                r == m.runId
                step == CHOOSE s \in {steps[i] : i \in DOMAIN steps} :
                           s.id = m.stepId
                maxAttempts == IF step.retryPolicy = NoPolicy
                               THEN DEFAULT_MAX_ATTEMPTS
                               ELSE step.retryPolicy.maxAttempts
            IN  IF wk[w].err.retryable /\ m.attempt < maxAttempts
                THEN /\ Cardinality(NewJobs) = 1
                     /\ \A j \in NewJobs :
                           /\ CopiesIn(j, queue') = CopiesIn(j, queue) + 1
                           /\ j.msg.type = "EXECUTE_STEP"
                           /\ j.msg.runId = r
                           /\ j.msg.stepIndex = m.stepIndex
                           /\ j.msg.stepId = m.stepId
                           /\ j.msg.attempt = m.attempt + 1
                     /\ runs'[r].currentStepIndex = runs[r].currentStepIndex
                     /\ runs'[r].status = runs[r].status
                ELSE /\ queue' = queue
                     /\ runs'[r].status = "failed"
                     /\ runs'[r].completedAt # Null
                     /\ runs'[r].error =
                           [code |-> wk[w].err.code, stepId |-> m.stepId,
                            stepName |-> step.name]]_vars

\* a run has failed on the second attempt of a step: a retry was scheduled
\* after the first failure and none after the second
C24_Witness ==
    /\ runs[TheRun].status = "failed"
    /\ \E x \in execs : x.attempt = 2 /\ x.status = "failed"
    /\ \A j \in BagToSet(queue) : j.msg.attempt < 3

\* the type of the step a message targets
TargetType(m) ==
    (CHOOSE s \in {steps[i] : i \in DOMAIN steps} : s.id = m.stepId).type

\* C25: every ExecuteStep message is on the ai queue if and only if the step
\* it targets has type ai, and on the execute queue otherwise -- whether it
\* was enqueued by processStartRun, after a success, as a retry or after a
\* failed lock acquisition -- so a worker only takes messages for whose
\* step type its registry has a handler.
C25_MessageOnQueueOfItsType ==
    /\ \A j \in BagToSet(queue) :
          j.msg.type = "EXECUTE_STEP"
             => /\ (j.q = "ai") <=> (TargetType(j.msg) = "ai")
                /\ (j.q = "execute") <=> (TargetType(j.msg) # "ai")
    /\ \A w \in Workers :
          (wk[w].pc # "idle" /\ wk[w].msg.type = "EXECUTE_STEP")
             => TargetType(wk[w].msg) \in HandlersOf(wk[w].q)

\* a message is delivered while its run's lock is held: no worker slot and no
\* REST request moves, the lock stays as it is, and the queues change
DeliveredUnderLock ==
    /\ lock[TheRun] > 0
    /\ lock' = lock
    /\ wk' = wk
    /\ api' = api
    /\ queue' # queue

\* C26: when the run lock cannot be acquired, exactly one copy of the same
\* message (same runId, workflowId, stepIndex, stepId, attempt) is enqueued
\* with delay 1000 ms and no run or step_execution state is read or written;
\* nothing limits how often this happens while the lock is held, and the
\* message is never dropped.
C26_LockDeniedRequeuesSameMessage ==
    /\ [][DeliveredUnderLock =>
            /\ runs' = runs
            /\ execs' = execs
            /\ \E j \in BagToSet(queue), q \in {"execute", "ai"} :
                  /\ j.delay = 0
                  /\ j.msg.type = "EXECUTE_STEP"
                  /\ LET again == [q |-> q, msg |-> j.msg, delay |-> 1000]
                     IN  \/ queue' = (queue (-) SetToBag({j}))
                                         (+) SetToBag({again})
                         \/ /\ queue' = queue (+) SetToBag({again})
                            /\ disturbances' = disturbances + 1]_vars
    /\ [](\A j \in BagToSet(queue) :
            (/\ j.delay = 0
             /\ j.msg.type = "EXECUTE_STEP"
             /\ lock[j.msg.runId] > 0
             /\ \E w \in Workers : wk[w].pc = "idle")
            => ENABLED (\E w \in Workers : Requeue(w)))

\* the lock is held and a message put back with the 1000 ms delay is waiting
C26_Witness ==
    /\ lock[TheRun] > 0
    /\ \E j \in BagToSet(queue) :
          j.delay = LOCK_RETRY_DELAY /\ j.msg.type = "EXECUTE_STEP"

(***************************************************************************)
(* Infrastructure failures: a repository or queue call of                  *)
(* processExecuteStep throws.  Inside the step's try block the exception   *)
(* is caught by the step's catch block; elsewhere it leaves through the    *)
(* finally block.                                                          *)
(***************************************************************************)
MaxFailures == 1

\* messages of errors thrown by the database or the queue client
InfraErrors == {"connect ECONNREFUSED", "relation does not exist"}

\* an exception that leaves the function without running the finally block
InfraPropagatesPastFinally(w) ==
    /\ wk[w].pc \in {"load", "create", "fail", "decide"}
    /\ calc.failures < MaxFailures
    /\ calc' = [calc EXCEPT !.failures = @ + 1]
    /\ wk' = [wk EXCEPT ![w] = IdleWorker]
    /\ UNCHANGED <<stepRows, workflows, clock, steps, runs, execs, lock, queue,
                   api, handlerCalls, disturbances, idem, hooks>>

\* findById, createStepExecution, updateStepExecution(running) before the
\* step's try block, or a call of the catch block, throws: nothing catches
\* it before finally.  updateStepExecution(running) throws after the row
\* was inserted.
InfraPropagates(w) ==
    /\ wk[w].pc \in {"load", "create", "fail", "decide"}
    /\ calc.failures < MaxFailures
    /\ calc' = [calc EXCEPT !.failures = @ + 1]
    /\ \E inserted \in BOOLEAN :
         LET m == wk[w].msg
         IN  /\ inserted =>
                   /\ wk[w].pc = "create"
                   /\ ~ExecConflict(execs, m.runId, m.stepId, m.attempt)
             /\ execs' = IF inserted
                         THEN CreateStepExecution(execs, m.runId, m.stepId,
                                  StepNameOf(m.stepId), m.attempt)
                         ELSE execs
    /\ wk' = [wk EXCEPT ![w].pc = "release", ![w].outcome = "infra"]
    /\ UNCHANGED <<stepRows, workflows, clock, steps, runs, lock, queue, api,
                   handlerCalls, disturbances, idem, hooks>>

\* after the handler has returned: updateStepExecution(completed),
\* updateStatus(running, next index), the enqueue of the next step or
\* updateStatus(completed) throws inside the step's try block
InfraCaught(w) ==
    /\ \/ wk[w].pc = "handler" /\ wk[w].timer > 0
       \/ wk[w].pc \in {"advance", "next"}
    /\ calc.failures < MaxFailures
    /\ calc' = [calc EXCEPT !.failures = @ + 1]
    /\ \E k \in InfraErrors :
         wk' = [wk EXCEPT ![w].pc = "fail", ![w].err = ClassifyError(k),
                          ![w].timer = 0, ![w].outcome = "infra"]
    /\ UNCHANGED <<stepRows, workflows, clock, steps, runs, execs, lock, queue,
                   api, handlerCalls, disturbances, idem, hooks>>

\* a run as the webhook leaves it; one duplicate delivery or REST request
InitInfra ==
    /\ steps \in Workflows
    /\ runs = [r \in {TheRun} |-> NewRun]
    /\ execs = {}
    /\ lock = [r \in {TheRun} |-> 0]
    /\ queue = SetToBag({Job("execute", StartRunMsg(TheRun), 0)})
    /\ wk = [w \in Workers |-> IdleWorker]
    /\ api = [pc |-> "idle"]
    /\ handlerCalls = [i \in StepIds |-> 0]
    /\ disturbances = MaxDisturbances - 1
    /\ idem = {}
    /\ hooks = << >>
    /\ clock = 0
    /\ calc = [pc |-> "infra", failures |-> 0]
    /\ workflows = {WorkflowRow(TRUE, Null)}
    /\ stepRows = StepRowsOf(steps)

NextInfra ==
    \/ Next
    \/ \E w \in Workers : InfraPropagates(w)
    \/ \E w \in Workers : InfraCaught(w)

SpecInfra == InitInfra /\ [][NextInfra]_vars

\* worker w is past a successful acquire, inside the scope of finally
HoldsRunLock(w) ==
    wk[w].pc \notin {"idle", "sr_next"} /\ wk[w].msg.type = "EXECUTE_STEP"

\* C27: every execution of processExecuteStep that acquired the run lock
\* releases it before it finishes, on every exit path: the silent returns,
\* a missing step or handler, success, retry, terminal failure, and an
\* exception thrown by the repository or the queue.
C27_LockReleasedOnEveryExit ==
    [][\A w \in Workers :
         (HoldsRunLock(w) /\ wk'[w].pc = "idle")
            => /\ wk[w].pc = "release"
               /\ lock'[wk[w].msg.runId] = 0]_vars

\* a worker whose repository or queue call threw is on its way out through
\* the finally block, the lock still set
C27_Witness ==
    \E w \in Workers :
       /\ wk[w].pc = "release"
       /\ wk[w].outcome = "infra"
       /\ lock[TheRun] > 0

\* worker w, one of whose repository or queue calls has thrown, takes a step
AfterInfraFailure(w) ==
    /\ wk[w].outcome = "infra"
    /\ wk'[w] # wk[w]

\* C30: a failure of a repository or queue call inside processExecuteStep
\* (updateStepExecution, updateStatus or enqueue throwing after the handler
\* has succeeded, for one) propagates to the worker as a failed job: the
\* engine enqueues no retry or follow-up message because of it and does not
\* change the run's status because of it.
C30_InfraFailurePropagates ==
    [][\A w \in Workers :
         AfterInfraFailure(w) =>
            /\ \A j \in BagToSet(queue') :
                  CopiesIn(j, queue') <= CopiesIn(j, queue)
            /\ runs'[wk[w].msg.runId].status = runs[wk[w].msg.runId].status]_vars

\* ------------------------------------------------- the success write
\* the step in which worker w writes the run after its handler returned
SuccessWrite(w) == wk[w].pc = "advance" /\ wk'[w].pc = "next"

\* C28: on step success the run is written with currentStepIndex =
\* msg.stepIndex + 1, status running and a context that is the previous
\* context plus the entry steps[step.name] = output: trigger, variables and
\* the outputs of the other steps are as they were in the row; and
\* context.trigger equals the run's triggerData in every state.
C28_SuccessWriteExtendsContext ==
    /\ [][\A w \in Workers :
            SuccessWrite(w) =>
               LET m == wk[w].msg
                   r == m.runId
                   name == StepNameOf(m.stepId)
               IN  /\ runs'[r].currentStepIndex = m.stepIndex + 1
                   /\ runs'[r].status = "running"
                   /\ runs'[r].context.steps[name] = wk[w].out
                   /\ \A n \in StepNames \ {name} :
                        runs'[r].context.steps[n] = runs[r].context.steps[n]
                   /\ runs'[r].context.trigger = runs[r].context.trigger
                   /\ runs'[r].context.variables = runs[r].context.variables]_vars
    /\ [](\A r \in DOMAIN runs :
            runs[r].context.trigger = runs[r].triggerData)

\* the second step's output has just been added next to the first step's
C28_Witness ==
    \E w \in Workers :
       /\ wk[w].pc = "next"
       /\ wk[w].msg.stepIndex = 1
       /\ \E n \in StepNames \ {StepNameOf(wk[w].msg.stepId)} :
            runs[wk[w].msg.runId].context.steps[n] # Null
       /\ runs[wk[w].msg.runId].context.steps[StepNameOf(wk[w].msg.stepId)] # Null

\* ----------------------------------------------------- the size limits
SizeLimitMessages == {"Step output exceeds", "Context exceeds"}

\* worker w is in the failure path of a size-limit overrun
SizeLimitFailure(w) ==
    /\ "message" \in DOMAIN wk[w].err
    /\ wk[w].err.message \in SizeLimitMessages

\* the failure path of a size-limit overrun ends: the step execution is
\* failed, nothing is enqueued, the run is failed at the same step index
SizeLimitFailsTheRun ==
    \A w \in Workers :
       (SizeLimitFailure(w) /\ wk[w].pc = "decide" /\ wk'[w].pc = "release") =>
          LET m == wk[w].msg
          IN  /\ \A e \in execs' :
                   ExecKey(e) = <<m.runId, m.stepId, m.attempt>> =>
                      e.status = "failed"
              /\ queue' = queue
              /\ runs'[m.runId].status = "failed"
              /\ runs'[m.runId].currentStepIndex = runs[m.runId].currentStepIndex

\* C29: an output over MAX_STEP_OUTPUT_BYTES or a context over
\* MAX_CONTEXT_SIZE_BYTES is classified VALIDATION and non-retryable; the
\* step execution ends failed, no retry is enqueued whatever the retry
\* policy, currentStepIndex is not advanced and the run ends failed.
C29_SizeLimitIsValidation ==
    /\ [](\A w \in Workers :
            SizeLimitFailure(w) =>
               wk[w].err.category = "VALIDATION" /\ ~wk[w].err.retryable)
    /\ [][SizeLimitFailsTheRun]_vars

\* ------------------------------------------------- processStartRun's effect
\* positions of the enabled steps in the workflow
EnabledAt == {i \in DOMAIN steps : steps[i].enabled}

\* worker w finishes processStartRun in this step
EndsStartRun(w) == wk[w].pc = "sr_next" /\ wk'[w].pc = "idle"

\* C31: processStartRun for a workflow with an enabled step changes only the
\* run's status (to running): currentStepIndex, context, completedAt and error
\* stay; it enqueues exactly one message ExecuteStep{stepIndex = 0, stepId =
\* id of the first enabled step by order, attempt = 1} without delay. With no
\* enabled step it sets status completed with completedAt and enqueues
\* nothing.
C31_StartRunEffect ==
    [][\A w \in Workers :
          /\ TakesStartRun(w) =>
                LET r == wk'[w].msg.runId
                IN  /\ runs' = [runs EXCEPT ![r].status = "running"]
                    /\ \A j \in BagToSet(queue') :
                          CopiesIn(j, queue') <= CopiesIn(j, queue)
          /\ EndsStartRun(w) =>
                LET r == wk[w].msg.runId
                IN  IF EnabledAt = {}
                    THEN /\ runs'[r].status = "completed"
                         /\ runs'[r].completedAt # Null
                         /\ queue' = queue
                    ELSE LET first == steps[CHOOSE i \in EnabledAt :
                                               \A k \in EnabledAt : i <= k]
                         IN  /\ runs' = runs
                             /\ \E q \in {"execute", "ai"} :
                                   queue' = queue (+) SetToBag({Job(q,
                                      ExecuteStepMsg(r, 0, first.id, 1), 0)})]_vars

\* the first step is disabled: the message names the second one
C31_Witness ==
    /\ ~steps[1].enabled
    /\ runs[TheRun].status = "running"
    /\ \E j \in BagToSet(queue) :
          j.msg = ExecuteStepMsg(TheRun, 0, 2, 1) /\ j.delay = 0

\* ------------------------------------------------ attempts of a step
\* a worker is processing a message of step stepId of run r
BusyWith(r, stepId) ==
    \E w \in Workers :
       /\ wk[w].pc \notin {"idle", "sr_next"}
       /\ wk[w].msg.runId = r
       /\ wk[w].msg.stepId = stepId

\* position (from 0) of step stepId among the enabled steps
IndexOf(stepId) ==
    CHOOSE i \in 0..(Len(EnabledSteps(steps)) - 1) :
       EnabledSteps(steps)[i + 1].id = stepId

\* C32: for every run and step the step_execution rows have the attempts
\* 1..k, each once; the rows of attempts 1..k-1 are failed; a completed row
\* is the row of attempt k, k <= maxAttempts, the only completed row of the
\* step, and once its processor is done the run has moved past the step.
C32_AttemptsDense ==
    \A r \in RunIds, sid \in StepIds :
       LET rows == RowsOf(r, sid)
           k == Cardinality(rows)
       IN  /\ {e.attempt : e \in rows} = 1..k
           /\ \A e \in rows : e.attempt < k => e.status = "failed"
           /\ \A e \in rows :
                 e.status = "completed" =>
                    /\ e.attempt = k
                    /\ k <= PolicyOf(FindStep(EnabledSteps(steps), sid)).maxAttempts
                    /\ ~BusyWith(r, sid) =>
                          runs[r].currentStepIndex > IndexOf(sid)

\* attempts 1 and 2 failed, attempt 3 completed, the run completed
C32_Witness ==
    /\ runs[TheRun].status = "completed"
    /\ \E sid \in StepIds :
          {<<e.attempt, e.status>> : e \in RowsOf(TheRun, sid)}
             = {<<1, "failed">>, <<2, "failed">>, <<3, "completed">>}

\* ------------------------------------------- a workflow edited during a run
\* DELETE /api/v1/workflows/:id/steps/:stepId while the run is in flight. A
\* processor keeps the workflow it loaded, so the edit is placed between two
\* jobs (no processor busy).
EditDeleteStep ==
    /\ disturbances < MaxDisturbances
    /\ \A w \in Workers : wk[w].pc = "idle"
    /\ \E i \in DOMAIN steps :
         /\ steps' = SubSeq(steps, 1, i - 1) \o SubSeq(steps, i + 1, Len(steps))
         /\ stepRows' = StepRowsOf(steps')
    /\ disturbances' = disturbances + 1
    /\ UNCHANGED <<workflows, calc, clock, runs, execs, lock, queue, wk, api,
                   handlerCalls, idem, hooks>>

InitEdit ==
    /\ steps \in Workflows
    /\ runs = [r \in {TheRun} |-> NewRun]
    /\ execs = {}
    /\ lock = [r \in {TheRun} |-> 0]
    /\ queue = SetToBag({Job("execute", StartRunMsg(TheRun), 0)})
    /\ wk = [w \in Workers |-> IdleWorker]
    /\ api = [pc |-> "idle"]
    /\ handlerCalls = [i \in StepIds |-> 0]
    /\ disturbances = MaxDisturbances - 1
    /\ idem = {}
    /\ hooks = << >>
    /\ clock = 0
    /\ calc = NoCalc
    /\ workflows = {WorkflowRow(TRUE, Null)}
    /\ stepRows = StepRowsOf(steps)

NextEdit ==
    \/ Next
    \/ EditDeleteStep

SpecEdit == InitEdit /\ [][NextEdit]_vars

\* worker w's lookup of the step or of its handler threw
FatalLookup(w) ==
    /\ wk[w].pc = "release"
    /\ wk[w].outcome = "thrown"
    /\ \/ StepOf(wk[w].msg) = NoStep
       \/ StepOf(wk[w].msg).type \notin HandlersOf(wk[w].q)

\* C33: when the step with id = msg.stepId is not among the enabled steps, or
\* no handler is registered for its type, processExecuteStep creates no
\* step_execution row, invokes no handler, enqueues nothing, and leaves the
\* run in status failed.
C33_MissingStepFailsRun ==
    [][\A w \in Workers :
          /\ (wk[w].pc = "load" /\ FatalLookup(w)') =>
                execs' = execs /\ handlerCalls' = handlerCalls /\ queue' = queue
          /\ (FatalLookup(w) /\ wk'[w].pc = "idle") =>
                /\ execs' = execs /\ handlerCalls' = handlerCalls
                /\ queue' = queue
                /\ runs'[wk[w].msg.runId].status = "failed"]_vars

\* --------------------------------------------------- what drives a run
\* a message of run r is waiting or delayed, a worker is processing one, or
\* a REST request is between its write and its enqueue
Driven(r) ==
    \/ \E j \in BagToSet(queue) : j.msg.runId = r
    \/ \E w \in Workers : wk[w].pc # "idle" /\ wk[w].msg.runId = r
    \/ api.pc # "idle"

\* C34: whenever a run is pending or running there is a queue message of the
\* run, waiting or delayed, or a worker processing one: no sequence of
\* deliveries, duplicate deliveries, lock contention, cancel and retry
\* requests leaves a non-terminal run with nothing to drive it.
C34_NonTerminalRunIsDriven ==
    \A r \in RunIds :
       runs[r].status \in {"pending", "running"} => Driven(r)

\* C35: lockManager.release removes only a lock held by the caller: a worker
\* whose lease ran out during a long step does not delete the key another
\* worker has set for the same run since.
C35_ReleaseOnlyOwnLock ==
    [][\A w \in Workers :
          (wk[w].pc = "body" /\ wk'[w].pc = "idle" /\ ~HoldsKey(w))
             => lock'[TheRun] = lock[TheRun]]_vars

\* ------------------------------------------------ status of an execution row
\* the status changes a step_execution row may go through
RowMoves ==
    {<<"pending", "running">>, <<"running", "completed">>,
     <<"running", "failed">>}

\* C36: a step_execution row's status only moves pending -> running ->
\* completed or pending -> running -> failed: a row written completed is
\* never rewritten failed, a failed row never completed.
C36_RowStatusMoves ==
    [][\A e \in execs, f \in execs' :
          (ExecKey(e) = ExecKey(f) /\ e.status # f.status)
             => <<e.status, f.status>> \in RowMoves]_vars

\* C37: processStartRun moves a run to running only from pending: a run that
\* is cancelled, completed or failed when its StartRun message is processed
\* keeps its status (and so none of its steps passes the status check of
\* processExecuteStep).
C37_StartRunOnlyFromPending ==
    [][\A w \in Workers :
          (/\ TakesStartRun(w)
           /\ runs[wk'[w].msg.runId].status
                 \in {"cancelled", "completed", "failed"})
          => runs'[wk'[w].msg.runId].status
                = runs[wk'[w].msg.runId].status]_vars

\* ------------------------------------------------- a failed run retried
InitRetry ==
    /\ steps \in Workflows
    /\ runs = [r \in {TheRun} |-> NewRun]
    /\ execs = {}
    /\ lock = [r \in {TheRun} |-> 0]
    /\ queue = SetToBag({Job("execute", StartRunMsg(TheRun), 0)})
    /\ wk = [w \in Workers |-> IdleWorker]
    /\ api = [pc |-> "idle"]
    /\ handlerCalls = [i \in StepIds |-> 0]
    /\ disturbances = MaxDisturbances - 1
    /\ idem = {}
    /\ hooks = << >>
    /\ clock = 0
    /\ calc = NoCalc
    /\ workflows = {WorkflowRow(TRUE, Null)}
    /\ stepRows = StepRowsOf(steps)

NextRetry ==
    \/ \E w \in Workers : WorkerStep(w)
    \/ RetryRead
    \/ RetryWrite
    \/ RetryEnqueue
    \/ Tick

\* workers take the steps they can take, time goes on, and a retry request
\* that was accepted runs to its end
SpecRetry ==
    /\ InitRetry
    /\ [][NextRetry]_vars
    /\ \A w \in Workers : WF_vars(WorkerStep(w))
    /\ WF_vars(Tick)
    /\ WF_vars(RetryWrite)
    /\ WF_vars(RetryEnqueue)

\* C38: after POST /api/v1/runs/:id/retry on a failed run the run is executed
\* again and eventually reaches completed or failed again, whatever the index
\* of the failed step and whatever attempts are recorded for it.
C38_RetriedRunEndsAgain ==
    (api.pc = "retryEnqueue")
       ~> (runs[TheRun].status \in {"completed", "failed"})

\* C39: once the 24-hour binding of an idempotency key has expired, the next
\* webhook POST with the key binds it to the run it creates: after its
\* setIdempotencyKey a lookup of the key finds that run.
C39_ExpiredKeyIsRebound ==
    [][\A h \in Requests :
          (/\ hooks[h].pc = "bind" /\ hooks'[h].pc = "enqueue"
           /\ hooks[h].key # Null
           /\ ~Bound(hooks[h].key))
          => FindByIdempotencyKey(idem', hooks[h].key) = hooks[h].runId]_vars

\* ------------------------------------------------ index and context keys
\* names of the first n enabled steps
FirstNames(n) == {EnabledSteps(steps)[i].name : i \in 1..n}

\* the keys of context.steps
KeysOf(context) == {n \in DOMAIN context.steps : context.steps[n] # Null}

====
